---- MODULE Spec2Model ----
(***************************************************************************)
(* Model of the ingestion / retrieval / page-discovery core of the         *)
(* GigaChat RAG web service:                                                *)
(*   - SimpleTextSplitter.split_text            (rag_service.py)            *)
(*   - RAGService add_document / search / clear_database (rag_service.py)   *)
(*   - ConfluenceService.parse_confluence_pages (confluence_service.py)     *)
(* Strings are sequences of one-character strings.                          *)
(***************************************************************************)
EXTENDS Integers, Sequences, FiniteSets, TLC

VARIABLES
    \* ---- SimpleTextSplitter.split_text call ----
    text,           \* argument `text`
    chunk_size,     \* self.chunk_size
    chunks,         \* returned list of chunks
    split_pc,       \* "call" before the call, "done" after it returned
    \* ---- ConfluenceService.parse_confluence_pages call ----
    cfg,            \* confluence_config plus the max_pages argument
    wiki,           \* the wiki server behind the HTTP API during this run
    all_page_ids,   \* local set all_page_ids
    todo,           \* list(all_page_ids)[:max_pages] still to be fetched
    processed_pages,\* local list processed_pages
    content_calls,  \* page ids get_page_content was called for, in order
    content_requests,\* page ids of the HTTP requests sent to the content endpoint
    child_calls,    \* page ids whose child listing was requested, in order
    parse_i,        \* index of the loop over page_urls / page_ids
    parse_pc,       \* position inside parse_confluence_pages
    parse_result,   \* value returned by parse_confluence_pages
    \* ---- RAGService and the requests using it ----
    is_available,           \* RAGService.is_available
    collection,             \* RAGService.collection: NoCollection or the collection it refers to
    embedding_provider,     \* class of RAGService.embedding_provider
    provider_is_available,  \* embedding_provider.is_available
    certificates,           \* the client certificate and key files at startup
    db,                     \* the persistent vector store behind the client
    req,                    \* per request: handler position and locals
    loop,                   \* request running on the event loop, 0 if none
    response,               \* value returned by the latest service call
    \* ---- one call of a function that keeps no state ----
    call_args,      \* the function called and its arguments
    call_result,    \* the value it returned
    call_pc         \* "call" before the call, "done" after it returned

splitVars == <<text, chunk_size, chunks, split_pc>>

parseVars == <<cfg, wiki, all_page_ids, todo, processed_pages, content_calls,
               content_requests, child_calls, parse_i, parse_pc, parse_result>>

ragVars == <<is_available, collection, embedding_provider, provider_is_available,
             certificates, db, req, loop, response>>

vars == <<text, chunk_size, chunks, split_pc,
          cfg, wiki, all_page_ids, todo, processed_pages, content_calls,
          content_requests, child_calls, parse_i, parse_pc, parse_result,
          is_available, collection, embedding_provider, provider_is_available,
          certificates, db, req, loop, response,
          call_args, call_result, call_pc>>

callVars == <<call_args, call_result, call_pc>>

\* no stateless function is being called
CallIdle ==
    /\ call_args = <<>>
    /\ call_result = <<>>
    /\ call_pc = "idle"

-----------------------------------------------------------------------------
(* Bounds of the model *)

MaxTextLen == 5
MaxChunkSize == 4

Alphabet == {"a", "b", " ", ".", "?"}

-----------------------------------------------------------------------------
(* Generic helpers *)

Min(a, b) == IF a <= b THEN a ELSE b

Range(s) == {s[i] : i \in 1..Len(s)}

SeqsUpTo(S, n) == UNION {[1..k -> S] : k \in 0..n}

RECURSIVE Flatten(_)
Flatten(ss) == IF ss = <<>> THEN <<>> ELSE Head(ss) \o Flatten(Tail(ss))

-----------------------------------------------------------------------------
(* Python string primitives used by split_text *)

\* characters matched by the pattern [.!?] of re.split
IsTerminator(c) == c \in {".", "!", "?"}

\* characters removed by str.strip() / separating words in str.split()
IsSpace(c) == c = " "

RECURSIVE LStrip(_)
LStrip(s) == IF s # <<>> /\ IsSpace(Head(s)) THEN LStrip(Tail(s)) ELSE s

RECURSIVE RStrip(_)
RStrip(s) ==
    IF s # <<>> /\ IsSpace(s[Len(s)]) THEN RStrip(SubSeq(s, 1, Len(s) - 1)) ELSE s

\* str.strip()
Strip(s) == RStrip(LStrip(s))

\* re.split(r'[.!?]+', t): the pieces between maximal runs of terminators,
\* empty leading / trailing pieces included
RECURSIVE ReSplitRec(_, _, _, _, _)
ReSplitRec(t, i, cur, acc, inRun) ==
    IF i > Len(t) THEN Append(acc, cur)
    ELSE IF IsTerminator(t[i])
         THEN IF inRun THEN ReSplitRec(t, i + 1, cur, acc, TRUE)
              ELSE ReSplitRec(t, i + 1, <<>>, Append(acc, cur), TRUE)
         ELSE ReSplitRec(t, i + 1, Append(cur, t[i]), acc, FALSE)

ReSplit(t) == ReSplitRec(t, 1, <<>>, <<>>, FALSE)

\* str.split(): the maximal runs of non-whitespace characters
RECURSIVE WordsRec(_, _, _, _)
WordsRec(s, i, cur, acc) ==
    IF i > Len(s) THEN (IF cur = <<>> THEN acc ELSE Append(acc, cur))
    ELSE IF IsSpace(s[i])
         THEN WordsRec(s, i + 1, <<>>, IF cur = <<>> THEN acc ELSE Append(acc, cur))
         ELSE WordsRec(s, i + 1, Append(cur, s[i]), acc)

Words(s) == WordsRec(s, 1, <<>>, <<>>)

-----------------------------------------------------------------------------
(* SimpleTextSplitter.split_text *)

\* mutant: the buffer is never flushed into the result
FlushDropped(cs, current) == cs

\* `if current_chunk: chunks.append(current_chunk.strip())`
Flush(cs, current) == IF current # <<>> THEN Append(cs, Strip(current)) ELSE cs

\* word-level packing of one over-long sentence (inner for loop);
\* st = [chunks, temp]
RECURSIVE PackWords(_, _, _)
PackWords(st, words, size) ==
    IF words = <<>> THEN st
    ELSE LET word == Head(words) IN
         IF Len(st.temp) + Len(word) <= size
         THEN PackWords([chunks |-> st.chunks,
                         temp |-> st.temp \o word \o <<" ">>], Tail(words), size)
         ELSE PackWords([chunks |-> Flush(st.chunks, st.temp),
                         temp |-> word \o <<" ">>], Tail(words), size)

\* one iteration of the loop over the sentences; st = [chunks, current]
ProcessSentence(st, raw, size) ==
    LET sentence == Strip(raw) IN
    IF sentence = <<>> THEN st
    ELSE IF Len(st.current) + Len(sentence) <= size
    THEN [chunks |-> st.chunks, current |-> st.current \o sentence \o <<".", " ">>]
    ELSE LET flushed == Flush(st.chunks, st.current) IN
         IF Len(sentence) <= size
         THEN [chunks |-> flushed, current |-> sentence \o <<".", " ">>]
         ELSE LET packed == PackWords([chunks |-> flushed, temp |-> <<>>],
                                      Words(sentence), size)
              IN [chunks |-> packed.chunks, current |-> packed.temp]

RECURSIVE SentenceLoop(_, _, _)
SentenceLoop(st, sentences, size) ==
    IF sentences = <<>> THEN st
    ELSE SentenceLoop(ProcessSentence(st, Head(sentences), size), Tail(sentences), size)

split_text(t, size) ==
    IF t = <<>> THEN <<>>
    ELSE LET st == SentenceLoop([chunks |-> <<>>, current |-> <<>>], ReSplit(t), size)
         IN Flush(st.chunks, st.current)

\* no split_text call is modelled
SplitIdle ==
    /\ text = <<>>
    /\ chunk_size = 1
    /\ chunks = <<>>
    /\ split_pc = "idle"

-----------------------------------------------------------------------------
(* ConfluenceService: URLs and page ids are strings, modelled as sequences  *)
(* of one-character strings.                                                *)

None == <<"<None>">>

\* mutant: every value counts as an id, None included
AlwaysTruthy(x) == TRUE

\* Python truthiness of an Optional[str]
Truthy(x) == x # None /\ x # <<>>

\* the literals extract_page_id_from_url searches for
PageIdParam == <<"p", "a", "g", "e", "I", "d", "=">>
DisplaySegment == <<"/", "d", "i", "s", "p", "l", "a", "y", "/">>
PagesSegment == <<"/", "p", "a", "g", "e", "s", "/">>
Ampersand == <<"&">>
Slash == <<"/">>

\* sep occurs in s at position i
OccursAt(s, i, sep) ==
    /\ i + Len(sep) - 1 <= Len(s)
    /\ SubSeq(s, i, i + Len(sep) - 1) = sep

\* `sep in s`
Contains(s, sep) == \E i \in 1..Len(s) : OccursAt(s, i, sep)

\* s.split(sep): the pieces between the occurrences of sep, found from the left
RECURSIVE StrSplitRec(_, _, _, _, _)
StrSplitRec(s, sep, i, cur, acc) ==
    IF i > Len(s) THEN Append(acc, cur)
    ELSE IF OccursAt(s, i, sep)
    THEN StrSplitRec(s, sep, i + Len(sep), <<>>, Append(acc, cur))
    ELSE StrSplitRec(s, sep, i + 1, Append(cur, s[i]), acc)

StrSplit(s, sep) == StrSplitRec(s, sep, 1, <<>>, <<>>)

PageIds == {<<"1">>, <<"2">>, <<"3">>}

\* the URLs offered to a run: query form, path form, display form, unknown form
UrlQuery1 == <<"w", "/", "p", "a", "g", "e", "s", "/", "v", "?", "p", "a", "g", "e", "I", "d", "=", "1", "&", "s", "=", "x">>
UrlPath2 == <<"w", "/", "s", "p", "a", "c", "e", "s", "/", "E", "/", "p", "a", "g", "e", "s", "/", "2", "/", "T">>
UrlDisplay == <<"w", "/", "d", "i", "s", "p", "l", "a", "y", "/", "E", "/", "T">>
UrlOther == <<"w", "/", "x", "/", "a">>

\* _get_page_id_by_display_url reaches its title search
DisplayLookupMade(display_url) ==
    LET parts == StrSplit(display_url, DisplaySegment) IN
    Len(parts) >= 2 /\ Len(StrSplit(parts[2], Slash)) >= 2

\* _get_page_id_by_display_url: the title search decides (non-200, no result
\* and exception all give None); display is the id the search answers with
get_page_id_by_display_url(w, display_url) ==
    IF DisplayLookupMade(display_url) THEN w.display ELSE None

\* mutant: the parameters after the page id are not cut off
QueryRemainder(page_url) == StrSplit(page_url, PageIdParam)[2]

\* `page_url.split('pageId=')[1].split('&')[0]`
PageIdOfQuery(page_url) == StrSplit(StrSplit(page_url, PageIdParam)[2], Ampersand)[1]

extract_page_id_from_url(w, page_url) ==
    IF Contains(page_url, PageIdParam)
    THEN PageIdOfQuery(page_url)
    ELSE IF Contains(page_url, DisplaySegment)
    THEN get_page_id_by_display_url(w, page_url)
    ELSE IF Contains(page_url, PagesSegment)
    THEN LET parts == StrSplit(page_url, PagesSegment) IN
         IF Len(parts) > 1 THEN StrSplit(parts[2], Slash)[1] ELSE None
    ELSE None

\* the title searches extract_page_id_from_url sends to the wiki
DisplayLookups(page_url) ==
    IF /\ ~Contains(page_url, PageIdParam)
       /\ Contains(page_url, DisplaySegment)
       /\ DisplayLookupMade(page_url)
    THEN 1 ELSE 0

\* mutant: the slice is forgotten
NoSlice(l, n) == l

\* l[:n] for n >= 0
Slice(l, n) == SubSeq(l, 1, Min(n, Len(l)))

\* 'limit': 100 of the child listing; the answer is not paged further
ChildLimit == 100

\* total=3 of the session's Retry strategy
RetryTotal == 3

\* how often session.get sends a request whose every attempt fails in the
\* given way: a timeout and the statuses of status_forcelist are retried
Attempts(mode) ==
    IF mode \in {"timeout", "status503"} THEN 1 + RetryTotal ELSE 1

\* one level of get_child_pages: the inner loop over current_level_pages;
\* st = [raised, all, next, calls], calls the pages whose children were asked for
RECURSIVE ChildLevel(_, _, _)
ChildLevel(w, st, current) ==
    IF current = <<>> \/ st.raised THEN st
    ELSE LET p == Head(current)
             asked == [st EXCEPT !.calls = Append(@, p)]
         IN
         IF w.child_fail.page = p /\ w.child_fail.mode = "raise"
         THEN [asked EXCEPT !.raised = TRUE]
         ELSE IF w.child_fail.page = p /\ w.child_fail.mode = "status"
         THEN ChildLevel(w, asked, Tail(current))
         ELSE LET kids == IF p \in DOMAIN w.children
                          THEN Slice(w.children[p], ChildLimit) ELSE <<>>
              IN ChildLevel(w, [raised |-> FALSE, all |-> st.all \o kids,
                                next |-> st.next \o kids, calls |-> asked.calls],
                            Tail(current))

\* the loop `for level in range(levels)`; all is all_child_pages when the
\* loop ends or an exception leaves it
RECURSIVE ChildLevels(_, _, _, _, _)
ChildLevels(w, all, current, remaining, calls) ==
    IF remaining = 0 THEN [raised |-> FALSE, all |-> all, calls |-> calls]
    ELSE LET st == ChildLevel(w, [raised |-> FALSE, all |-> all, next |-> <<>>,
                                  calls |-> calls], current)
         IN IF st.raised THEN [raised |-> TRUE, all |-> st.all, calls |-> st.calls]
            ELSE IF st.next = <<>>
            THEN [raised |-> FALSE, all |-> st.all, calls |-> st.calls]
            ELSE ChildLevels(w, st.all, st.next, remaining - 1, st.calls)

\* the value get_child_pages returns for the outcome r of its loops:
\* `return all_child_pages`, or `return []` from `except Exception`
ChildPagesReturned(r) == IF r.raised THEN <<>> ELSE r.all

\* mutant: any number of levels is accepted
AnyLevels(levels) == TRUE

\* not `levels <= 0 or levels > 5`
LevelsValid(levels) == ~(levels <= 0 \/ levels > 5)

get_child_pages(w, page_id, levels) ==
    IF ~LevelsValid(levels) THEN <<>>
    ELSE ChildPagesReturned(ChildLevels(w, <<>>, <<page_id>>, levels, <<>>))

\* the child listings get_child_pages asks the wiki for
ChildListings(w, page_id, levels) ==
    IF ~LevelsValid(levels) THEN <<>>
    ELSE ChildLevels(w, <<>>, <<page_id>>, levels, <<>>).calls

ApiLimit == 25

\* mutant: the offset is not advanced
SameStart(start, limit) == start

\* `start += limit`
NextStart(start, limit) == start + limit

\* the while loop of get_pages_from_space; st = [pages, start]
RECURSIVE SpaceLoop(_, _, _, _, _)
SpaceLoop(w, pages, start, limit, max_pages) ==
    IF ~(Len(pages) < max_pages) THEN [raised |-> FALSE, pages |-> pages]
    ELSE IF w.space_fail.start = start /\ w.space_fail.mode = "raise"
    THEN [raised |-> TRUE, pages |-> <<>>]
    ELSE IF w.space_fail.start = start /\ w.space_fail.mode = "status"
    THEN [raised |-> FALSE, pages |-> pages]
    ELSE LET batch_pages == SubSeq(w.space_pages, start + 1,
                                   Min(start + limit, Len(w.space_pages)))
         IN IF batch_pages = <<>> THEN [raised |-> FALSE, pages |-> pages]
            ELSE IF Len(batch_pages) < limit
            THEN [raised |-> FALSE, pages |-> pages \o batch_pages]
            ELSE SpaceLoop(w, pages \o batch_pages, NextStart(start, limit), limit, max_pages)

get_pages_from_space(w, space_key, max_pages) ==
    LET r == SpaceLoop(w, <<>>, 0, Min(ApiLimit, max_pages), max_pages)
    IN IF r.raised THEN <<>> ELSE SubSeq(r.pages, 1, Min(max_pages, Len(r.pages)))

\* the None returned by get_page_content
NoPage == [id |-> None]

\* the page's content request succeeds
Delivered(w, page_id) == page_id \in w.pages /\ page_id \notin w.content_fail.pages

\* get_page_content: a dict for a page the server delivers, None otherwise
\* (non-200 status and exception alike)
get_page_content(w, page_id) ==
    IF Delivered(w, page_id) THEN [id |-> page_id] ELSE NoPage

\* the requests session.get sends for the content of page_id
ContentRequests(w, page_id) ==
    LET n == IF Delivered(w, page_id) THEN 1
             ELSE IF page_id \notin w.pages THEN Attempts("status404")
             ELSE Attempts(w.content_fail.mode)
    IN [i \in 1..n |-> page_id]

\* mutant: one level too many is asked for
LevelsTooDeep(parse_levels) == parse_levels

\* the `levels` argument parse_confluence_pages hands to get_child_pages
LevelsBelowSeed(parse_levels) == parse_levels - 1

\* a seed and, when parse_levels > 1, its descendants
SeedWithChildren(w, page_id, parse_levels) ==
    {page_id} \cup (IF parse_levels > 1
                    THEN Range(get_child_pages(w, page_id, LevelsBelowSeed(parse_levels)))
                    ELSE {})

\* the child listings asked for a seed
SeedListings(w, page_id, parse_levels) ==
    IF parse_levels > 1
    THEN ChildListings(w, page_id, LevelsBelowSeed(parse_levels)) ELSE <<>>

\* mutant: a list in which an id may be repeated
ListsWithRepeats(S) == [1..Cardinality(S) -> S]

\* list(all_page_ids): the ids of the set, each once, in an order the set's
\* hashing decides
ListsOfSet(S) == {l \in [1..Cardinality(S) -> S] : Range(l) = S}

-----------------------------------------------------------------------------
(* RAGService: the vector store, the embedding providers and the requests   *)
(* that call add_document / search / clear_database / get_stats.            *)
(* Handlers are coroutines on one event loop: a handler runs without        *)
(* interleaving until it awaits or returns; `loop` is the running request.  *)

NReq == 2
MaxStored == 3
MaxK == 1
MaxClears == 1
CHUNK_SIZE == 2

MAX_SEARCH_RESULTS == 5
embedding_dim == 384

Reqs == 1..NReq

\* document contents handed to add_document: empty, punctuation only,
\* a one-sentence text, a two-sentence text
Contents == {<<>>, <<".", "?">>, <<"a">>, <<"a", ".", "b">>}

\* metadata handed to add_document; "None" stands for a missing map
Metadatas == {[source |-> "None"],
              [source |-> "file_upload", filename |-> "f.txt"]}

\* vector lengths the embedding server may deliver
ServerDims == {embedding_dim, 2 * embedding_dim}

NoResult == [type |-> "none"]

\* a request: its position, the arguments and locals of the service call it
\* makes, and `before`, the collection contents when add_document was called
IdleReq == [pc |-> "idle", content |-> <<>>, meta |-> [source |-> "None"],
            k |-> 0, chunk_texts |-> <<>>, embeddings |-> <<>>, before |-> <<>>]

\* self.collection = None
NoCollection == -1

\* check_availability
check_availability ==
    is_available /\ collection # NoCollection /\ embedding_provider # "None"

\* the collection behind self.collection still exists in the store
Live == db.exists /\ collection = db.gen

\* an embedding call's outcome: a raised exception or the returned vectors,
\* each vector given by its length
\* mutant: an unavailable provider answers with a vector instead of raising
SilentlyDegrades(msg) == [raised |-> FALSE, msg |-> "", vectors |-> <<embedding_dim>>]

Raised(msg) == [raised |-> TRUE, msg |-> msg, vectors |-> <<>>]
Returned(vs) == [raised |-> FALSE, msg |-> "", vectors |-> vs]

\* SimpleEmbeddingsProvider.get_embeddings / GigaChatEmbeddingsProvider.get_embeddings;
\* server is the embedding API's behaviour on this call
get_embeddings(texts, server) ==
    IF embedding_provider = "SimpleEmbeddingsProvider"
    THEN Returned([i \in 1..Len(texts) |-> embedding_dim])
    ELSE IF ~provider_is_available
    THEN Raised("GigaChat embeddings unavailable - check the certificates")
    ELSE IF server.mode = "error" THEN Returned(<<>>)
    ELSE IF server.mode = "short" THEN Returned([i \in 1..(Len(texts) - 1) |-> server.dim])
    ELSE Returned([i \in 1..Len(texts) |-> server.dim])

\* get_query_embedding: a vector length, 0 for the empty list
get_query_embedding(server) ==
    IF embedding_provider = "SimpleEmbeddingsProvider" THEN Returned(<<embedding_dim>>)
    ELSE IF ~provider_is_available
    THEN Raised("GigaChat embeddings unavailable - check the certificates")
    ELSE IF server.mode = "error" THEN Returned(<<>>)
    ELSE Returned(<<server.dim>>)

\* self.embedding_provider and its is_available attribute
Provider == [class |-> embedding_provider, is_available |-> provider_is_available]

\* mutant: a failed embedding call marks the provider unavailable
MarkedUnavailable(provider, e) ==
    IF e.raised \/ e.vectors = <<>>
    THEN [provider EXCEPT !.is_available = FALSE] ELSE provider

\* the provider after an embedding call with outcome e: `except` logs and
\* returns [], and nothing is assigned to the provider or to its flag
ProviderAfterCall(provider, e) == provider

EmbedServers == [mode : {"ok", "error", "short"}, dim : ServerDims]

\* ord(c) of the characters of the texts embedded on their own
CharCode(c) == IF c = "a" THEN 97 ELSE IF c = "b" THEN 98 ELSE 32

\* hashlib.sha256(text.encode()).hexdigest(): 64 hexadecimal digits, each
\* given by its value, that depend on the text alone. The digits are those of a
\* stand-in checksum, not of SHA-256.
RECURSIVE CheckSum(_, _, _)
CheckSum(txt, i, k) ==
    IF i > Len(txt) THEN 7 * k + 3
    ELSE CharCode(txt[i]) * (i + k) + CheckSum(txt, i + 1, k)

HexDigits == 64

hexdigest(txt) == [k \in 1..HexDigits |-> CheckSum(txt, 1, k) % 16]

\* `int(hex_pair, 16) / 255.0 - 0.5`, in units of 1/510
Normalised(hi, lo) == 2 * (16 * hi + lo) - 255

\* mutant: the vector is left as long as the digest makes it
Unpadded(embedding) == embedding

\* `while len(embedding) < self.embedding_dim: embedding.append(0.0)`
ZeroPadded(embedding) ==
    IF Len(embedding) < embedding_dim
    THEN embedding \o [i \in 1..(embedding_dim - Len(embedding)) |-> 0]
    ELSE embedding

\* SimpleEmbeddingsProvider._text_to_embedding
text_to_embedding(txt) ==
    LET text_hash == hexdigest(txt)
        \* `range(0, min(len(text_hash), self.embedding_dim * 2), 2)`
        \* the digest has an even number of digits
        pairs == Min(Len(text_hash), embedding_dim * 2) \div 2
        embedding == [i \in 1..pairs |->
                        Normalised(text_hash[2 * i - 1], text_hash[2 * i])]
    IN Slice(ZeroPadded(embedding), embedding_dim)

\* SimpleEmbeddingsProvider.get_embeddings, the vectors given in full
SimpleGetEmbeddings(texts) == [i \in 1..Len(texts) |-> text_to_embedding(texts[i])]

\* SimpleEmbeddingsProvider.get_query_embedding, the vector given in full
SimpleGetQueryEmbedding(query) == text_to_embedding(query)

\* mutant: only an empty answer is rejected, a short one is zipped
EmbeddingsNonEmpty(embeddings, chunk_texts) == embeddings # <<>>

\* `not (not embeddings or len(embeddings) != len(chunk_texts))`
EmbeddingsComplete(embeddings, chunk_texts) ==
    embeddings # <<>> /\ Len(embeddings) = Len(chunk_texts)

\* mutant: the exception leaves add_document
ExceptPropagates(msg) == [type |-> "add", raised |-> TRUE, success |-> FALSE,
                          chunks_added |-> 0, error |-> msg]

\* `except Exception as e: return {"success": False, "chunks_added": 0, "error": str(e)}`
AddExcept(msg) == [type |-> "add", raised |-> FALSE, success |-> FALSE,
                   chunks_added |-> 0, error |-> msg]

\* the early `return {"success": False, "chunks_added": 0, "error": ...}` statements
AddFailure(msg) == [type |-> "add", raised |-> FALSE, success |-> FALSE,
                    chunks_added |-> 0, error |-> msg]

AddSuccess(n) == [type |-> "add", raised |-> FALSE, success |-> TRUE,
                  chunks_added |-> n, error |-> ""]

\* uuid.uuid4(): n identifiers no stored chunk carries
StoredIds == {db.items[i].id : i \in 1..Len(db.items)}

\* mutant: identifiers are numbered from 1 for every call
ReusedIds(n, from, used) == [i \in 1..n |-> from + i - 1]

RECURSIVE FreshIds(_, _, _)
FreshIds(n, from, used) ==
    IF n = 0 THEN <<>>
    ELSE IF from \in used THEN FreshIds(n, from + 1, used)
    ELSE <<from>> \o FreshIds(n - 1, from + 1, used)

\* dict.update: the keys of u are set in d
DictUpdate(d, u) == u @@ d

\* `chunk_metadata = metadata.copy()` and `chunk_metadata.update({...})` for
\* the chunk at index i
ChunkMetadata(meta, i, chunk, chunk_texts) ==
    DictUpdate(meta, [chunk_index |-> i, chunk_size |-> Len(chunk),
                      total_chunks |-> Len(chunk_texts)])

\* mutant: the caller's map itself is updated for every chunk
UpdatedInPlace(meta, chunk_texts) ==
    ChunkMetadata(meta, Len(chunk_texts) - 1, chunk_texts[Len(chunk_texts)], chunk_texts)

\* the caller's metadata map after the loop: the updates went to the copies
CallerMetadata(meta, chunk_texts) == meta

\* the records built by the loop `for i, (chunk, embedding) in enumerate(zip(...))`
ChunkRecords(chunk_texts, embeddings, meta) ==
    LET n == Min(Len(chunk_texts), Len(embeddings))
        ids == FreshIds(n, 1, StoredIds)
    IN [i \in 1..n |->
          [id |-> ids[i], text |-> chunk_texts[i], dim |-> embeddings[i],
           meta |-> ChunkMetadata(meta, i - 1, chunk_texts[i], chunk_texts)]]

\* a result of add_document together with the caller's metadata map as the
\* call leaves it
WithCallerMetadata(result, metadata) == [metadata |-> metadata] @@ result

\* mutant: the store takes vectors of any length
StoreAddAnyLength(records) == IF ~Live THEN "Collection does not exist" ELSE ""

\* collection.add of the vector store: rejects a deleted collection and
\* vectors whose length differs from the collection's; writes all or nothing
StoreAddError(records) ==
    IF ~Live THEN "Collection does not exist"
    ELSE IF \E i \in 1..Len(records) :
                records[i].dim # (IF db.dim = 0 THEN records[1].dim ELSE db.dim)
    THEN "Embedding dimension does not match collection dimensionality"
    ELSE ""

StoreAdd(records) ==
    [db EXCEPT !.items = db.items \o records,
               !.dim = IF db.dim = 0 THEN records[1].dim ELSE db.dim]

\* mutant: the exception leaves search
SearchRaises(n_results) ==
    [type |-> "search", raised |-> TRUE, n_results |-> n_results, results |-> <<>>]

\* the `return []` statements of search: service unavailable, no query
\* embedding, and `except Exception`
SearchEmpty(n_results) ==
    [type |-> "search", raised |-> FALSE, n_results |-> n_results, results |-> <<>>]

\* `return formatted_results`
SearchFound(n_results, results) ==
    [type |-> "search", raised |-> FALSE, n_results |-> n_results, results |-> results]

\* mutant: the clamp is forgotten and the collection size is requested
NoClamp(n_results, count) == count

\* `min(n_results, self.collection.count())`
ClampResults(n_results, count) == Min(n_results, count)

\* the answers collection.query may give for n results: n stored chunks
QueryAnswers(n) ==
    {idx \in SUBSET (1..Len(db.items)) : Cardinality(idx) = Min(n, Len(db.items))}

RECURSIVE PickItems(_, _)
PickItems(idx, i) ==
    IF i > Len(db.items) THEN <<>>
    ELSE (IF i \in idx THEN <<db.items[i].id>> ELSE <<>>) \o PickItems(idx, i + 1)

\* mutant: the collection is not deleted
DeleteSkipped(d) == d

\* client.delete_collection(name)
DeleteCollection(d) == [exists |-> FALSE, gen |-> d.gen, dim |-> 0, items |-> <<>>]

\* client.get_or_create_collection(name): the collection of that name, or a
\* new empty one with a new identity
GetOrCreateCollection(d) ==
    IF d.exists THEN d ELSE [exists |-> TRUE, gen |-> d.gen + 1, dim |-> 0, items |-> <<>>]

\* get_stats()["total_chunks"]: the count, or 0 on the error path
StatsTotalChunks ==
    IF ~check_availability THEN 0 ELSE IF Live THEN Len(db.items) ELSE 0

\* the positions inside the bodies of add_document and clear_database
AddBody == {"add_split", "add_embed", "add_write"}
ClearBody == {"clear_delete", "clear_create"}
SearchBody == {"search_embed", "search_query"}

\* mutant: the embedding call is awaited, so the loop may run other handlers
SuspendsAtEmbed(p) == p \in {"idle", "upload_await", "add_embed"}

\* the positions at which a handler is not running: before dispatch, after
\* return, and at `await file.read()`
Suspends(p) == p \in {"idle", "upload_await"}

\* the locks held at a position of add_document / clear_database: the code
\* acquires none
LocksHeld(p) == {}

\* no request is modelled
RagIdle ==
    /\ is_available = FALSE
    /\ collection = NoCollection
    /\ embedding_provider = "None"
    /\ provider_is_available = FALSE
    /\ certificates = "unread"
    /\ db = [exists |-> FALSE, gen |-> 0, dim |-> 0, items |-> <<>>]
    /\ req = [r \in Reqs |-> IdleReq]
    /\ loop = 0
    /\ response = NoResult

-----------------------------------------------------------------------------
(* parse_confluence_pages, one action per loop iteration *)

ParseIdle ==
    /\ cfg = [page_urls |-> <<>>, page_ids |-> <<>>, space_key |-> None,
              parse_levels |-> 1, max_pages |-> 0]
    /\ wiki = [pages |-> {}, children |-> <<>>, display |-> None,
               child_fail |-> [page |-> None, mode |-> "ok"],
               space_pages |-> <<>>, space_fail |-> [start |-> -1, mode |-> "ok"],
               content_fail |-> [pages |-> {}, mode |-> "ok"]]
    /\ all_page_ids = {}
    /\ todo = <<>>
    /\ processed_pages = <<>>
    /\ content_calls = <<>>
    /\ content_requests = <<>>
    /\ child_calls = <<>>
    /\ parse_i = 0
    /\ parse_pc = "idle"
    /\ parse_result = <<>>

MaxLevels == 3
MaxPagesArg == 3

UrlLists == {<<>>, <<UrlQuery1, UrlOther>>, <<UrlPath2, UrlDisplay, UrlQuery1>>}
IdLists == {<<>>, <<<<"1">>>>, <<<<"3">>, <<"2">>, <<"3">>>>}

\* child/page relations of the wiki: a tree, a shared child with a cycle, flat
WikiGraphs ==
    { (<<"1">> :> << <<"2">>, <<"3">> >>) @@ (<<"2">> :> << <<"3">> >>),
      (<<"1">> :> << <<"2">> >>) @@ (<<"2">> :> << <<"1">>, <<"3">> >>),
      (<<"3">> :> << <<"3">> >>) }

\* the ways the content endpoint fails during a run: not at all, or for page
\* 1 with a status that is not retried, one that is, or a timeout
ContentFailures ==
    {[pages |-> {}, mode |-> "ok"]}
    \cup {[pages |-> {<<"1">>}, mode |-> m] : m \in {"status404", "status503", "timeout"}}

NoChildFailure == [page |-> None, mode |-> "ok"]
NoSpaceFailure == [start |-> -1, mode |-> "ok"]
NoContentFailure == [pages |-> {}, mode |-> "ok"]

\* the failures of the wiki during a run: none, or one kind of call failing
WikiFailures ==
    {[child_fail |-> c, space_fail |-> NoSpaceFailure, content_fail |-> NoContentFailure] :
        c \in {NoChildFailure,
               [page |-> <<"1">>, mode |-> "status"],
               [page |-> <<"2">>, mode |-> "raise"]}}
    \cup {[child_fail |-> NoChildFailure, space_fail |-> [start |-> 0, mode |-> "raise"],
           content_fail |-> NoContentFailure]}
    \cup {[child_fail |-> NoChildFailure, space_fail |-> NoSpaceFailure, content_fail |-> c] :
            c \in ContentFailures}

Wikis ==
    {[pages |-> PageIds, children |-> g, display |-> d,
      child_fail |-> f.child_fail,
      space_pages |-> << <<"3">>, <<"1">>, <<"2">> >>,
      space_fail |-> f.space_fail,
      content_fail |-> f.content_fail] :
        g \in WikiGraphs, d \in {None, <<"2">>}, f \in WikiFailures}

ParseCall ==
    /\ cfg \in [page_urls : UrlLists, page_ids : IdLists, space_key : {None, <<"ENG">>},
                parse_levels : 1..MaxLevels, max_pages : 0..MaxPagesArg]
    /\ wiki \in Wikis
    /\ all_page_ids = {}
    /\ todo = <<>>
    /\ processed_pages = <<>>
    /\ content_calls = <<>>
    /\ content_requests = <<>>
    /\ child_calls = <<>>
    /\ parse_i = 1
    /\ parse_pc = "urls"
    /\ parse_result = <<>>

\* 1. one iteration of `for page_url in confluence_config.page_urls`
ParseUrl ==
    /\ parse_pc = "urls"
    /\ parse_i <= Len(cfg.page_urls)
    /\ LET page_id == extract_page_id_from_url(wiki, cfg.page_urls[parse_i]) IN
       IF Truthy(page_id)
       THEN /\ all_page_ids' = all_page_ids
                               \cup SeedWithChildren(wiki, page_id, cfg.parse_levels)
            /\ child_calls' = child_calls \o SeedListings(wiki, page_id, cfg.parse_levels)
       ELSE UNCHANGED <<all_page_ids, child_calls>>
    /\ parse_i' = parse_i + 1
    /\ UNCHANGED <<cfg, wiki, todo, processed_pages, content_calls, content_requests,
                   parse_pc, parse_result>>
    /\ UNCHANGED <<splitVars, ragVars, callVars>>

ParseUrlsDone ==
    /\ parse_pc = "urls"
    /\ parse_i > Len(cfg.page_urls)
    /\ parse_pc' = "ids"
    /\ parse_i' = 1
    /\ UNCHANGED <<cfg, wiki, all_page_ids, todo, processed_pages, content_calls,
                   content_requests, child_calls, parse_result>>
    /\ UNCHANGED <<splitVars, ragVars, callVars>>

\* 2. one iteration of `for page_id in confluence_config.page_ids`
ParseId ==
    /\ parse_pc = "ids"
    /\ parse_i <= Len(cfg.page_ids)
    /\ all_page_ids' = all_page_ids
                       \cup SeedWithChildren(wiki, cfg.page_ids[parse_i], cfg.parse_levels)
    /\ child_calls' = child_calls
                      \o SeedListings(wiki, cfg.page_ids[parse_i], cfg.parse_levels)
    /\ parse_i' = parse_i + 1
    /\ UNCHANGED <<cfg, wiki, todo, processed_pages, content_calls, content_requests,
                   parse_pc, parse_result>>
    /\ UNCHANGED <<splitVars, ragVars, callVars>>

ParseIdsDone ==
    /\ parse_pc = "ids"
    /\ parse_i > Len(cfg.page_ids)
    /\ parse_pc' = "space"
    /\ UNCHANGED <<cfg, wiki, all_page_ids, todo, processed_pages, content_calls,
                   content_requests, child_calls, parse_i, parse_result>>
    /\ UNCHANGED <<splitVars, ragVars, callVars>>

\* the pages of the space listing parse_confluence_pages loops over
SpacePages(w, c) ==
    IF Truthy(c.space_key) THEN get_pages_from_space(w, c.space_key, c.max_pages) ELSE <<>>

\* 3. `if confluence_config.space_key:` the listing and the loop over it
ParseSpace ==
    /\ parse_pc = "space"
    /\ LET pages == SpacePages(wiki, cfg)
       IN /\ all_page_ids' = all_page_ids \cup
                UNION {SeedWithChildren(wiki, pages[i], cfg.parse_levels) : i \in 1..Len(pages)}
          /\ child_calls' = child_calls \o
                Flatten([i \in 1..Len(pages) |-> SeedListings(wiki, pages[i], cfg.parse_levels)])
    /\ parse_pc' = "select"
    /\ UNCHANGED <<cfg, wiki, todo, processed_pages, content_calls, content_requests,
                   parse_i, parse_result>>
    /\ UNCHANGED <<splitVars, ragVars, callVars>>

\* 4. `if not all_page_ids: return []`, else list(all_page_ids)[:max_pages]
ParseSelect ==
    /\ parse_pc = "select"
    /\ IF all_page_ids = {}
       THEN /\ parse_pc' = "done"
            /\ parse_result' = <<>>
            /\ todo' = todo
       ELSE /\ \E l \in ListsOfSet(all_page_ids) : todo' = Slice(l, cfg.max_pages)
            /\ parse_pc' = "fetch"
            /\ parse_result' = parse_result
    /\ UNCHANGED <<cfg, wiki, all_page_ids, processed_pages, content_calls,
                   content_requests, child_calls, parse_i>>
    /\ UNCHANGED <<splitVars, ragVars, callVars>>

\* mutant: a page that cannot be fetched ends the loop
StopAtFailure(rest, page_content) == IF page_content = NoPage THEN <<>> ELSE rest

\* the ids the content loop goes on with after a page: all that are left,
\* whether the page was fetched or not
NextPages(rest, page_content) == rest

\* one iteration of the content loop
ParseFetch ==
    /\ parse_pc = "fetch"
    /\ todo # <<>>
    /\ LET page_id == Head(todo)
           page_content == get_page_content(wiki, page_id)
       IN /\ content_calls' = Append(content_calls, page_id)
          /\ content_requests' = content_requests \o ContentRequests(wiki, page_id)
          /\ processed_pages' = IF page_content # NoPage
                                THEN Append(processed_pages, page_content)
                                ELSE processed_pages
          /\ todo' = NextPages(Tail(todo), page_content)
    /\ UNCHANGED <<cfg, wiki, all_page_ids, child_calls, parse_i, parse_pc, parse_result>>
    /\ UNCHANGED <<splitVars, ragVars, callVars>>

\* `return processed_pages`
ParseReturn ==
    /\ parse_pc = "fetch"
    /\ todo = <<>>
    /\ parse_pc' = "done"
    /\ parse_result' = processed_pages
    /\ UNCHANGED <<cfg, wiki, all_page_ids, todo, processed_pages, content_calls,
                   content_requests, child_calls, parse_i>>
    /\ UNCHANGED <<splitVars, ragVars, callVars>>

\* mutant: the pages fetched before the error are discarded
ParseFailsEmpty(pages) == <<>>

\* `except Exception as e: ... return processed_pages`
ParseExcept(pages) == pages

\* an unexpected error at any point inside the try block of
\* parse_confluence_pages
ParseError ==
    /\ parse_pc \in {"urls", "ids", "space", "select", "fetch"}
    /\ parse_pc' = "except"
    /\ parse_result' = ParseExcept(processed_pages)
    /\ UNCHANGED <<cfg, wiki, all_page_ids, todo, processed_pages, content_calls,
                   content_requests, child_calls, parse_i>>
    /\ UNCHANGED <<splitVars, ragVars, callVars>>

ParseInit == ParseCall /\ SplitIdle /\ RagIdle /\ CallIdle

ParseNext ==
    \/ ParseUrl
    \/ ParseUrlsDone
    \/ ParseId
    \/ ParseIdsDone
    \/ ParseSpace
    \/ ParseSelect
    \/ ParseFetch
    \/ ParseReturn
    \/ ParseError

SpecParse == ParseInit /\ [][ParseNext]_vars

-----------------------------------------------------------------------------
(* Specification of one split_text call on an arbitrary bounded input *)

\* "Hello world. This is a test. Short.", the input of the documented example
ScenarioText ==
    <<"H", "e", "l", "l", "o", " ", "w", "o", "r", "l", "d", ".", " ", "T",
      "h", "i", "s", " ", "i", "s", " ", "a", " ", "t", "e", "s", "t", ".",
      " ", "S", "h", "o", "r", "t", ".">>

SplitCall ==
    /\ \/ /\ text \in SeqsUpTo(Alphabet, MaxTextLen)
          /\ chunk_size \in 1..MaxChunkSize
       \/ /\ text = ScenarioText
          /\ chunk_size = 20
    /\ chunks = <<>>
    /\ split_pc = "call"

SplitInit == SplitCall /\ ParseIdle /\ RagIdle /\ CallIdle

SplitText ==
    /\ split_pc = "call"
    /\ chunks' = split_text(text, chunk_size)
    /\ split_pc' = "done"
    /\ UNCHANGED <<text, chunk_size>>
    /\ UNCHANGED <<parseVars, ragVars, callVars>>

SplitNext == SplitText

SpecSplit == SplitInit /\ [][SplitNext]_vars

-----------------------------------------------------------------------------
(* extract_page_id_from_url called on its own *)

MaxUrlParts == 4

\* the pieces URLs are put together from
UrlTokens == {PageIdParam, DisplaySegment, PagesSegment, Ampersand, Slash, <<"4">>, <<"x">>}

\* the URLs of test_url_extraction, shortened, and every URL of up to
\* MaxUrlParts pieces
Urls ==
    {UrlQuery1, UrlPath2, UrlDisplay, UrlOther}
        \cup {Flatten(parts) : parts \in SeqsUpTo(UrlTokens, MaxUrlParts)}

\* what the title search of the wiki answers: no page, or page 2
DisplayAnswers == {None, <<"2">>}

UrlCall ==
    /\ call_args \in [page_url : Urls, display : DisplayAnswers]
    /\ call_result = <<>>
    /\ call_pc = "extract"

\* one call of extract_page_id_from_url; lookups counts the requests it sent
UrlExtract ==
    /\ call_pc = "extract"
    /\ call_result' = [page_id |-> extract_page_id_from_url(call_args, call_args.page_url),
                       lookups |-> DisplayLookups(call_args.page_url)]
    /\ call_pc' = "done"
    /\ UNCHANGED <<call_args, splitVars, parseVars, ragVars>>

UrlInit == UrlCall /\ SplitIdle /\ ParseIdle /\ RagIdle

UrlNext == UrlExtract

SpecUrl == UrlInit /\ [][UrlNext]_vars

-----------------------------------------------------------------------------
(* RAGService requests, one action per step of a handler *)

\* chunks a previous run of the service left in the persistent store
StoredBefore(d) ==
    << [id |-> 1, text |-> <<"a", ".">>, dim |-> d,
        meta |-> [source |-> "file_upload", filename |-> "f.txt",
                  chunk_index |-> 0, chunk_size |-> 2, total_chunks |-> 1]] >>

\* the persistent store as _initialize finds or creates it
StoresAtStart ==
    {[exists |-> TRUE, gen |-> 0, dim |-> 0, items |-> <<>>]}
    \cup {[exists |-> TRUE, gen |-> 0, dim |-> d, items |-> StoredBefore(d)] : d \in ServerDims}

\* the certificate and key files GigaChatEmbeddingsProvider is pointed at
CertificateStates == {"valid", "missing", "placeholder"}

\* whether `from langchain_gigachat import GigaChatEmbeddings` and the
\* constructor call succeed
Libraries == {"ok", "failing"}

\* mutant: the files are not looked at
CertificatesUnchecked(certs) == TRUE

\* _check_certificates: both files exist and neither holds the placeholder text
check_certificates(certs) == certs = "valid"

\* GigaChatEmbeddingsProvider.__init__: the value is_available ends with
GigaChatIsAvailable(certs, library) == check_certificates(certs) /\ library = "ok"

\* _initialize_embedding_provider: the class of the provider it installs
ProviderChosen(certs, library) ==
    IF GigaChatIsAvailable(certs, library)
    THEN "GigaChatEmbeddingsProvider" ELSE "SimpleEmbeddingsProvider"

\* RAGService.__init__ / _initialize: the states construction can end in
RagConstructed ==
    /\ certificates \in CertificateStates
    /\ \/ \* the store could not be opened
          /\ is_available = FALSE
          /\ collection = NoCollection
          /\ embedding_provider = "None"
          /\ provider_is_available = FALSE
          /\ db = [exists |-> FALSE, gen |-> 0, dim |-> 0, items |-> <<>>]
       \/ \* _initialize_embedding_provider: network-backed provider or fallback
          /\ is_available = TRUE
          /\ \E library \in Libraries :
                embedding_provider = ProviderChosen(certificates, library)
          /\ provider_is_available = TRUE
          /\ db \in StoresAtStart
          /\ collection = db.gen
    /\ req = [r \in Reqs |-> IdleReq]
    /\ loop = 0
    /\ response = NoResult

\* the event loop runs r: r is the running handler, or the loop is free and r
\* is waiting to be dispatched or resumed
CanRun(r) == loop = r \/ (loop = 0 /\ Suspends(req[r].pc))

\* r moves on; the loop stays with r unless r suspends
Step(r, new) ==
    /\ req' = [req EXCEPT ![r] = new]
    /\ loop' = IF Suspends(new.pc) THEN 0 ELSE r
    /\ response' = response

\* the service call of r returns result and the handler of r ends
Returns(r, result) ==
    /\ req' = [req EXCEPT ![r] = IdleReq]
    /\ loop' = 0
    /\ response' = result

Dispatchable(r) == CanRun(r) /\ req[r].pc = "idle"

serviceVars == <<is_available, collection, embedding_provider, provider_is_available,
                 certificates>>

otherVars == <<splitVars, parseVars, callVars>>

\* upload_file up to `await file.read()`
UploadStart(r) ==
    /\ Dispatchable(r)
    /\ IF ~check_availability
       THEN Returns(r, [type |-> "upload", status |-> "warning"])
       ELSE Step(r, [IdleReq EXCEPT !.pc = "upload_await"])
    /\ UNCHANGED <<db, serviceVars, otherVars>>

\* upload_file from `await file.read()` to the call of add_document (also
\* the call in parse_confluence)
UploadResume(r) ==
    /\ CanRun(r)
    /\ req[r].pc = "upload_await"
    /\ \/ Returns(r, [type |-> "upload", status |-> "error"])
       \/ \E content \in Contents, meta \in Metadatas :
             /\ Len(db.items) + Len(split_text(content, CHUNK_SIZE)) <= MaxStored
             /\ Step(r, [req[r] EXCEPT !.pc = "add_split", !.content = content,
                                       !.meta = meta, !.before = db.items])
    /\ UNCHANGED <<db, serviceVars, otherVars>>

\* add_document: availability check, split_text, the two chunk checks
AddSplit(r) ==
    /\ CanRun(r)
    /\ req[r].pc = "add_split"
    /\ LET cs == split_text(req[r].content, CHUNK_SIZE)
           chunk_texts == SelectSeq(cs, LAMBDA c : Strip(c) # <<>>)
       IN IF ~check_availability
          THEN Returns(r, AddFailure("RAG service unavailable"))
          ELSE IF cs = <<>>
          THEN Returns(r, AddFailure("could not split the text into chunks"))
          ELSE IF chunk_texts = <<>>
          THEN Returns(r, AddFailure("no valid chunks"))
          ELSE Step(r, [req[r] EXCEPT !.pc = "add_embed", !.chunk_texts = chunk_texts])
    /\ UNCHANGED <<db, serviceVars, otherVars>>

\* add_document: get_embeddings and the check of its answer
AddEmbed(r) ==
    /\ CanRun(r)
    /\ req[r].pc = "add_embed"
    /\ \E server \in EmbedServers :
         LET e == get_embeddings(req[r].chunk_texts, server) IN
         /\ IF e.raised THEN Returns(r, AddExcept(e.msg))
            ELSE IF ~EmbeddingsComplete(e.vectors, req[r].chunk_texts)
            THEN Returns(r, AddFailure("could not get the embeddings"))
            ELSE Step(r, [req[r] EXCEPT !.pc = "add_write", !.embeddings = e.vectors])
         /\ embedding_provider' = ProviderAfterCall(Provider, e).class
         /\ provider_is_available' = ProviderAfterCall(Provider, e).is_available
    /\ UNCHANGED <<db, is_available, collection, certificates, otherVars>>

\* add_document: the per-chunk records and collection.add
AddWrite(r) ==
    /\ CanRun(r)
    /\ req[r].pc = "add_write"
    /\ IF req[r].meta.source = "None"
       THEN /\ Returns(r, AddExcept("'NoneType' object has no attribute 'copy'"))
            /\ db' = db
       ELSE LET records == ChunkRecords(req[r].chunk_texts, req[r].embeddings, req[r].meta)
            IN \/ /\ StoreAddError(records) # ""
                  /\ Returns(r, AddExcept(StoreAddError(records)))
                  /\ db' = db
               \/ /\ StoreAddError(records) = ""
                  /\ Returns(r, AddExcept("store error"))
                  /\ db' = db
               \/ /\ StoreAddError(records) = ""
                  /\ Returns(r, WithCallerMetadata(AddSuccess(Len(records)),
                                CallerMetadata(req[r].meta, req[r].chunk_texts)))
                  /\ db' = StoreAdd(records)
    /\ UNCHANGED <<serviceVars, otherVars>>

\* the clear-db handler up to the call of delete_collection
ClearStart(r) ==
    /\ Dispatchable(r)
    /\ db.gen < MaxClears
    /\ IF ~check_availability
       THEN Returns(r, [type |-> "http", status |-> 503])
       ELSE Step(r, [IdleReq EXCEPT !.pc = "clear_delete"])
    /\ UNCHANGED <<db, serviceVars, otherVars>>

\* clear_database: self.client.delete_collection(name)
ClearDelete(r) ==
    /\ CanRun(r)
    /\ req[r].pc = "clear_delete"
    /\ \/ \* the store raises (always when the collection does not exist)
          /\ Returns(r, [type |-> "clear", ok |-> FALSE])
          /\ db' = db
       \/ /\ db.exists
          /\ Step(r, [req[r] EXCEPT !.pc = "clear_create"])
          /\ db' = DeleteCollection(db)
    /\ UNCHANGED <<serviceVars, otherVars>>

\* clear_database: self.collection = self.client.get_or_create_collection(...)
ClearCreate(r) ==
    /\ CanRun(r)
    /\ req[r].pc = "clear_create"
    /\ \/ \* the store raises: `except` returns False, self.collection keeps
          \* the handle of the deleted collection
          /\ Returns(r, [type |-> "clear", ok |-> FALSE])
          /\ UNCHANGED <<db, collection>>
       \/ /\ Returns(r, [type |-> "clear", ok |-> TRUE])
          /\ db' = GetOrCreateCollection(db)
          /\ collection' = db'.gen
    /\ UNCHANGED <<is_available, embedding_provider, provider_is_available, certificates,
                   otherVars>>

\* search(query, n_results): availability check and the default of n_results
SearchStart(r) ==
    /\ Dispatchable(r)
    /\ \E n \in {-1} \cup 0..MaxK :
         LET n_results == IF n = -1 THEN MAX_SEARCH_RESULTS ELSE n IN
         IF ~check_availability
         THEN Returns(r, SearchEmpty(n_results))
         ELSE Step(r, [IdleReq EXCEPT !.pc = "search_embed", !.k = n_results])
    /\ UNCHANGED <<db, serviceVars, otherVars>>

\* search: get_query_embedding and `if not query_embedding: return []`
SearchEmbed(r) ==
    /\ CanRun(r)
    /\ req[r].pc = "search_embed"
    /\ \E server \in EmbedServers :
         LET e == get_query_embedding(server) IN
         /\ IF e.raised \/ e.vectors = <<>>
            THEN Returns(r, SearchEmpty(req[r].k))
            ELSE Step(r, [req[r] EXCEPT !.pc = "search_query", !.embeddings = e.vectors])
         /\ embedding_provider' = ProviderAfterCall(Provider, e).class
         /\ provider_is_available' = ProviderAfterCall(Provider, e).is_available
    /\ UNCHANGED <<db, is_available, collection, certificates, otherVars>>

\* search: collection.count(), collection.query and the formatting loop;
\* the store raises for a deleted collection, for n_results <= 0 and for a
\* query vector of another length, and `except` returns []
SearchQuery(r) ==
    /\ CanRun(r)
    /\ req[r].pc = "search_query"
    /\ LET n == IF Live THEN ClampResults(req[r].k, Len(db.items)) ELSE 0
           fails == \/ ~Live
                    \/ n <= 0
                    \/ (db.dim # 0 /\ db.dim # req[r].embeddings[1])
       IN \/ Returns(r, SearchEmpty(req[r].k))
          \/ /\ ~fails
             /\ \E idx \in QueryAnswers(n) :
                  Returns(r, SearchFound(req[r].k, PickItems(idx, 1)))
    /\ UNCHANGED <<db, serviceVars, otherVars>>

\* the stats handler: get_stats()
Stats(r) ==
    /\ Dispatchable(r)
    /\ Returns(r, [type |-> "stats", total_chunks |-> StatsTotalChunks])
    /\ UNCHANGED <<db, serviceVars, otherVars>>

\* analyze_chunks()["total_chunks"]: the number of documents collection.get
\* returns, or 0 on the unavailable, empty and error paths
AnalyzeTotalChunks ==
    IF ~check_availability THEN 0 ELSE IF Live THEN Len(db.items) ELSE 0

\* analyze_chunks(), called by the chunk-analysis handler: it only reads the store
Analyze(r) ==
    /\ Dispatchable(r)
    /\ Returns(r, [type |-> "analyze", total_chunks |-> AnalyzeTotalChunks])
    /\ UNCHANGED <<db, serviceVars, otherVars>>

Init == RagConstructed /\ SplitIdle /\ ParseIdle /\ CallIdle

Next ==
    \/ \E r \in Reqs : UploadStart(r)
    \/ \E r \in Reqs : UploadResume(r)
    \/ \E r \in Reqs : AddSplit(r)
    \/ \E r \in Reqs : AddEmbed(r)
    \/ \E r \in Reqs : AddWrite(r)
    \/ \E r \in Reqs : ClearStart(r)
    \/ \E r \in Reqs : ClearDelete(r)
    \/ \E r \in Reqs : ClearCreate(r)
    \/ \E r \in Reqs : SearchStart(r)
    \/ \E r \in Reqs : SearchEmbed(r)
    \/ \E r \in Reqs : SearchQuery(r)
    \/ \E r \in Reqs : Stats(r)
    \/ \E r \in Reqs : Analyze(r)

Spec == Init /\ [][Next]_vars

-----------------------------------------------------------------------------
(* An embedding provider called on its own, twice *)

MaxTexts == 2

\* the texts embedded: the empty string, "a" and "ab"
ProviderTexts == {<<>>, <<"a">>, <<"a", "b">>}

\* a provider object after its constructor
ProviderConstructed ==
    \/ \* GigaChatEmbeddingsProvider(...)
       /\ certificates \in CertificateStates
       /\ embedding_provider = "GigaChatEmbeddingsProvider"
       /\ \E library \in Libraries :
             provider_is_available = GigaChatIsAvailable(certificates, library)
    \/ \* SimpleEmbeddingsProvider()
       /\ certificates = "unread"
       /\ embedding_provider = "SimpleEmbeddingsProvider"
       /\ provider_is_available = TRUE

ProviderCall ==
    /\ ProviderConstructed
    /\ is_available = FALSE
    /\ collection = NoCollection
    /\ db = [exists |-> FALSE, gen |-> 0, dim |-> 0, items |-> <<>>]
    /\ req = [r \in Reqs |-> IdleReq]
    /\ loop = 0
    /\ response = NoResult
    /\ call_args \in [texts : SeqsUpTo(ProviderTexts, MaxTexts)]
    /\ call_result = <<>>
    /\ call_pc = "first"

\* the call returned e; a second call follows the first
ProviderReturns(op, arg, e) ==
    /\ call_pc \in {"first", "second"}
    /\ call_result' = Append(call_result, [op |-> op, arg |-> arg,
                                           raised |-> e.raised, vectors |-> e.vectors])
    /\ call_pc' = IF call_pc = "first" THEN "second" ELSE "done"
    /\ UNCHANGED <<call_args, splitVars, parseVars, ragVars>>

\* embedding_provider.get_embeddings(texts)
ProviderGetEmbeddings ==
    \E server \in EmbedServers :
        ProviderReturns("get_embeddings", call_args.texts,
            IF embedding_provider = "SimpleEmbeddingsProvider"
            THEN Returned(SimpleGetEmbeddings(call_args.texts))
            ELSE get_embeddings(call_args.texts, server))

\* embedding_provider.get_query_embedding(query)
ProviderGetQueryEmbedding ==
    \E query \in ProviderTexts, server \in EmbedServers :
        ProviderReturns("get_query_embedding", query,
            IF embedding_provider = "SimpleEmbeddingsProvider"
            THEN Returned(<<SimpleGetQueryEmbedding(query)>>)
            ELSE get_query_embedding(server))

ProviderInit == ProviderCall /\ SplitIdle /\ ParseIdle

ProviderNext ==
    \/ ProviderGetEmbeddings
    \/ ProviderGetQueryEmbedding

SpecProvider == ProviderInit /\ [][ProviderNext]_vars

-----------------------------------------------------------------------------
(* chat_endpoint: one chat request on a constructed RAGService; request 1   *)
(* carries its search call                                                  *)

\* mutant: a retrieval without results ends the turn with an error
TurnFailsWithoutResults(search_results) == search_results = <<>>

\* the statements between the search and the completion call raise for no
\* result list: `if search_results:` only guards the context building
TurnFails(search_results) == FALSE

\* the stored chunk a search result stands for
ResultChunk(id) == CHOOSE it \in Range(db.items) : it.id = id

\* `context_parts.append(result['text'])`: the texts the context is joined from
ContextOf(search_results) ==
    [i \in 1..Len(search_results) |-> ResultChunk(search_results[i]).text]

\* `sources.append({'text': result['text'][:200] + "...", 'metadata': ..., ...})`
SourcesOf(search_results) ==
    [i \in 1..Len(search_results) |->
        [text |-> Slice(ResultChunk(search_results[i]).text, 200) \o <<".", ".", ".">>,
         metadata |-> ResultChunk(search_results[i]).meta]]

\* the locals context and sources, the status of the response, and whether
\* chat_with_context sent the completion request
ChatLocals(context, sources, status, completed) ==
    [context |-> context, sources |-> sources, status |-> status, completed |-> completed]

ChatCall ==
    /\ call_args \in [use_rag : BOOLEAN, gigachat_available : BOOLEAN]
    /\ call_result = ChatLocals(<<>>, <<>>, 0, FALSE)
    /\ call_pc = "chat"

\* chat_endpoint up to the search call: the availability check of the chat
\* service (its HTTPException is caught by `except Exception` and raised again
\* with status 500) and `if message.use_rag and rag_service.check_availability()`
ChatStart ==
    /\ call_pc = "chat"
    /\ IF ~call_args.gigachat_available
       THEN /\ call_pc' = "done"
            /\ call_result' = ChatLocals(<<>>, <<>>, 500, FALSE)
            /\ UNCHANGED <<req, loop, response>>
       ELSE IF call_args.use_rag /\ check_availability
       THEN /\ call_pc' = "chat_search"
            /\ call_result' = call_result
            /\ Step(1, [IdleReq EXCEPT !.pc = "search_embed", !.k = MAX_SEARCH_RESULTS])
       ELSE /\ call_pc' = "chat_await"
            /\ call_result' = call_result
            /\ UNCHANGED <<req, loop, response>>
    /\ UNCHANGED <<call_args, db, serviceVars, splitVars, parseVars>>

\* search returned: `if search_results:` and the loop building context and sources
ChatContext ==
    /\ call_pc = "chat_search"
    /\ req[1].pc = "idle"
    /\ response.type = "search"
    /\ IF response.raised \/ TurnFails(response.results)
       THEN /\ call_pc' = "done"
            /\ call_result' = ChatLocals(<<>>, <<>>, 500, FALSE)
       ELSE /\ call_pc' = "chat_await"
            /\ call_result' = ChatLocals(ContextOf(response.results),
                                         SourcesOf(response.results), 0, FALSE)
    /\ UNCHANGED <<call_args, ragVars, splitVars, parseVars>>

\* `await gigachat_service.chat_with_context(message.message, context)` and
\* the ChatResponse; chat_with_context returns a text whether or not the
\* completion request succeeds
ChatComplete ==
    /\ call_pc = "chat_await"
    /\ call_pc' = "done"
    /\ call_result' = [call_result EXCEPT !.status = 200, !.completed = TRUE]
    /\ UNCHANGED <<call_args, ragVars, splitVars, parseVars>>

ChatInit == ChatCall /\ RagConstructed /\ SplitIdle /\ ParseIdle

ChatNext ==
    \/ ChatStart
    \/ SearchEmbed(1)
    \/ SearchQuery(1)
    \/ ChatContext
    \/ ChatComplete

SpecChat == ChatInit /\ [][ChatNext]_vars

-----------------------------------------------------------------------------
(* get_pages_from_space called on its own, one action per round of its loop; *)
(* the pages of the listing are given by their positions 1, 2, ...           *)

MaxPagesAsked == 51

\* the locals pages and start, the listing requests sent so far with the
\* number of pages held when each was sent, the kind of each response, and
\* the value returned
SpaceLocals(pages, start, requests, responses, result) ==
    [pages |-> pages, start |-> start, requests |-> requests,
     responses |-> responses, result |-> result]

SpaceCall ==
    /\ call_args \in [max_pages : 0..MaxPagesAsked]
    /\ call_result = SpaceLocals(<<>>, 0, <<>>, <<>>, <<>>)
    /\ call_pc = "space_loop"

SpaceLimit == Min(ApiLimit, call_args.max_pages)

\* the request of one round
SpaceAsked ==
    Append(call_result.requests,
           [start |-> call_result.start, limit |-> SpaceLimit,
            held |-> Len(call_result.pages)])

\* a round whose session.get raises: `except` returns []
SpaceRaises ==
    /\ call_pc = "space_loop"
    /\ Len(call_result.pages) < call_args.max_pages
    /\ call_result' = [call_result EXCEPT !.requests = SpaceAsked,
                                          !.responses = Append(@, "raise"),
                                          !.result = <<>>]
    /\ call_pc' = "done"
    /\ UNCHANGED <<call_args, splitVars, parseVars, ragVars>>

\* a round answered with a status other than 200: break
SpaceStatus ==
    /\ call_pc = "space_loop"
    /\ Len(call_result.pages) < call_args.max_pages
    /\ call_result' = [call_result EXCEPT !.requests = SpaceAsked,
                                          !.responses = Append(@, "status")]
    /\ call_pc' = "space_return"
    /\ UNCHANGED <<call_args, splitVars, parseVars, ragVars>>

\* a round answered with b results, the server choosing any b up to one more
\* than asked for: break on an empty or short batch, else advance the offset
SpaceBatch ==
    /\ call_pc = "space_loop"
    /\ Len(call_result.pages) < call_args.max_pages
    /\ \E b \in 0..(SpaceLimit + 1) :
         LET batch_pages == [i \in 1..b |-> call_result.start + i] IN
         /\ call_result' =
               [call_result EXCEPT
                   !.requests = SpaceAsked,
                   !.responses = Append(@, IF b = 0 THEN "empty"
                                           ELSE IF b < SpaceLimit THEN "short" ELSE "full"),
                   !.pages = @ \o batch_pages,
                   !.start = IF b = 0 \/ b < SpaceLimit THEN @
                             ELSE NextStart(@, SpaceLimit)]
         /\ call_pc' = IF b = 0 \/ b < SpaceLimit THEN "space_return" ELSE "space_loop"
    /\ UNCHANGED <<call_args, splitVars, parseVars, ragVars>>

\* the loop has ended: `return pages[:max_pages]`
SpaceReturn ==
    /\ \/ call_pc = "space_return"
       \/ call_pc = "space_loop" /\ ~(Len(call_result.pages) < call_args.max_pages)
    /\ call_result' = [call_result EXCEPT
                          !.result = Slice(call_result.pages, call_args.max_pages)]
    /\ call_pc' = "done"
    /\ UNCHANGED <<call_args, splitVars, parseVars, ragVars>>

SpaceInit == SpaceCall /\ SplitIdle /\ ParseIdle /\ RagIdle

SpaceNext ==
    \/ SpaceRaises
    \/ SpaceStatus
    \/ SpaceBatch
    \/ SpaceReturn

\* the call runs on until it returns: it is never suspended for good
SpecSpace == SpaceInit /\ [][SpaceNext]_vars /\ WF_vars(SpaceNext)

-----------------------------------------------------------------------------
(* get_child_pages called on its own, on every child relation over three    *)
(* pages built from the lists of KidLists                                   *)

\* what a child listing may answer: nothing, one child, two children, the
\* same child twice
KidLists == {<<>>, << <<"2">> >>, << <<"1">>, <<"3">> >>,
             << <<"3">>, <<"3">> >>, << <<"2">>, <<"3">> >>}

\* the child listing of one page may answer with another status or raise
ChildFailures ==
    {NoChildFailure}
    \cup [page : PageIds, mode : {"status", "raise"}]

ChildCall ==
    /\ call_args \in [w : [children : [PageIds -> KidLists], child_fail : ChildFailures],
                      page_id : PageIds, levels : 0..6]
    /\ call_result = <<>>
    /\ call_pc = "children"

\* one call of get_child_pages; calls are the child listings it asked for
ChildRun ==
    /\ call_pc = "children"
    /\ call_result' =
          [returned |-> get_child_pages(call_args.w, call_args.page_id, call_args.levels),
           calls |-> ChildListings(call_args.w, call_args.page_id, call_args.levels)]
    /\ call_pc' = "done"
    /\ UNCHANGED <<call_args, splitVars, parseVars, ragVars>>

ChildInit == ChildCall /\ SplitIdle /\ ParseIdle /\ RagIdle

ChildNext == ChildRun

SpecChild == ChildInit /\ [][ChildNext]_vars

-----------------------------------------------------------------------------
(* Claims about split_text *)

\* the non-empty stripped sentences of a string
NonEmpty(ss) == SelectSeq(ss, LAMBDA s : s # <<>>)

StripAll(ss) == [i \in 1..Len(ss) |-> Strip(ss[i])]

SentencesOf(t) == NonEmpty(StripAll(ReSplit(t)))

WordsOf(t) == LET ss == SentencesOf(t) IN Flatten([i \in 1..Len(ss) |-> Words(ss[i])])

ChunkSentences == Flatten([i \in 1..Len(chunks) |-> SentencesOf(chunks[i])])

ChunkWords == Flatten([i \in 1..Len(chunks) |-> WordsOf(chunks[i])])

HasOverlongSentence ==
    \E i \in 1..Len(SentencesOf(text)) : Len(SentencesOf(text)[i]) > chunk_size

\* C8: no chunk returned by split_text is longer than chunk_size, except a
\* chunk holding a single sentence (or word) that alone exceeds chunk_size.
\* The exception is read generously: any chunk made of one sentence is exempt.
C8_ChunkBound ==
    split_pc = "done" =>
        \A i \in 1..Len(chunks) :
            \/ Len(chunks[i]) <= chunk_size
            \/ Len(SentencesOf(chunks[i])) <= 1

\* C9: the chunks, in order and ignoring terminators and padding, carry
\* exactly the words of the input's non-empty sentences, and when no sentence
\* is over-long also exactly its sequence of sentences.
C9_ChunkCoverage ==
    split_pc = "done" =>
        /\ ChunkWords = WordsOf(text)
        /\ (~HasOverlongSentence => ChunkSentences = SentencesOf(text))

C9_Witness ==
    /\ split_pc = "done"
    /\ Len(chunks) >= 2
    /\ HasOverlongSentence
    /\ Len(SentencesOf(text)) >= 2

-----------------------------------------------------------------------------
(* Claims about parse_confluence_pages *)

NoDuplicates(l) == \A i, j \in 1..Len(l) : i # j => l[i] # l[j]

IdsOf(pages) == [i \in 1..Len(pages) |-> pages[i].id]

\* C6: a page id reached through several mechanisms is content-fetched at
\* most once and appears at most once among the processed pages.
C6_Dedup ==
    /\ NoDuplicates(content_calls)
    /\ NoDuplicates(IdsOf(processed_pages))
    /\ NoDuplicates(IdsOf(parse_result))

\* page 1 is named by a URL and by an explicit id, page 2 is reached as a child
\* and through the space listing
C6_Witness ==
    /\ parse_pc = "done"
    /\ UrlQuery1 \in Range(cfg.page_urls)
    /\ <<"1">> \in Range(cfg.page_ids)
    /\ Truthy(cfg.space_key)
    /\ cfg.parse_levels > 1
    /\ {<<"1">>, <<"2">>} \subseteq Range(IdsOf(parse_result))

\* C7: with max_pages = N >= 0 at most N content fetches are made and at most
\* N processed pages are returned, however many ids were discovered.
C7_Cap ==
    /\ Len(content_calls) + Len(todo) <= cfg.max_pages
    /\ Len(processed_pages) <= cfg.max_pages
    /\ Len(parse_result) <= cfg.max_pages

C7_Witness ==
    /\ parse_pc = "done"
    /\ Cardinality(all_page_ids) > cfg.max_pages
    /\ cfg.max_pages >= 1
    /\ Len(parse_result) = cfg.max_pages

-----------------------------------------------------------------------------
(* Claims about RAGService *)

\* collection.count() through the handle the service holds
Count == IF Live THEN Len(db.items) ELSE 0

\* request r returns from add_document in this step
AddReturns(r) == req[r].pc \in AddBody /\ req'[r].pc = "idle"

\* the embedding call of r's add_document raised, answered nothing, or
\* answered with another number of vectors than there are chunks
EmbeddingFailed(r) ==
    \/ req[r].pc = "add_embed"
    \/ req[r].pc = "add_write" /\ Len(req[r].embeddings) # Len(req[r].chunk_texts)

C1_Step ==
    \A r \in Reqs :
        (AddReturns(r) /\ EmbeddingFailed(r)) =>
            /\ db'.items = req[r].before
            /\ response'.type = "add"
            /\ ~response'.success

\* C1: all-or-nothing ingestion. When add_document returns after its
\* embedding call raised, answered nothing or answered with a number of
\* vectors different from the number of non-empty chunks, the collection
\* holds exactly what it held when add_document was called, and the call
\* reports failure.
C1_AllOrNothing == [][C1_Step]_vars

\* an add_document was rejected for its embeddings while the store held chunks
C1_Witness ==
    /\ response.type = "add"
    /\ response.error = "could not get the embeddings"
    /\ db.items # <<>>

InWriteBody(r) == req[r].pc \in AddBody \cup ClearBody

\* C3 as stated: a request inside the body of add_document or of
\* clear_database holds the single write lock.
C3_WriteLockHeld ==
    \A r \in Reqs : InWriteBody(r) => LocksHeld(req[r].pc) # {}

C3_OneWriter ==
    /\ \A r1, r2 \in Reqs :
          (InWriteBody(r1) /\ InWriteBody(r2)) => r1 = r2
    /\ \A r \in Reqs : InWriteBody(r) => loop = r

C3_SuccessIsStored ==
    \A r \in Reqs :
        (AddReturns(r) /\ response'.type = "add" /\ response'.success) =>
            /\ Live'
            /\ collection' = collection
            /\ Len(db'.items) = Len(req[r].before) + response'.chunks_added
            /\ \A i \in 1..Len(req[r].before) : db'.items[i] = req[r].before[i]

\* C3: the bodies of clear_database and add_document do not interleave. At
\* most one request is inside either body and it is the one the event loop
\* runs, so no clear_database executes between an add_document's start and
\* its collection write; an add_document that reports success has appended
\* its chunks to the live collection it started with. The code takes no
\* lock: the bodies are serialised because they contain no suspension point.
C3_Serialised == []C3_OneWriter /\ [][C3_SuccessIsStored]_vars

\* an add_document is about to write while another request waits, suspended
\* in its handler
C3_Witness ==
    \E r1, r2 \in Reqs :
        /\ req[r1].pc = "add_write"
        /\ req[r2].pc = "upload_await"
        /\ db.items # <<>>

C4_Step ==
    /\ \A r \in Reqs :
          (req[r].pc = "clear_create" /\ response'.type = "clear" /\ response'.ok) =>
              Count' = 0 /\ Live'
    /\ (Count = 0 /\ Count' > 0) =>
          (\E r \in Reqs : AddReturns(r)) /\ response'.type = "add" /\ response'.success
    /\ \A r \in Reqs :
          (req[r].pc \in SearchBody /\ req'[r].pc = "idle" /\ Count = 0) =>
              response'.type = "search" /\ response'.results = <<>>
    /\ \A r \in Reqs :
          (Stats(r) /\ Count = 0) => response'.total_chunks = 0

\* C4: a clear_database that returns True leaves count() = 0; count() leaves
\* 0 only by an add_document that returns success; and while count() = 0
\* every search returns no result and get_stats reports 0 chunks.
C4_ClearedIsEmpty == [][C4_Step]_vars

\* a clear_database returned True and the new collection is empty
C4_Witness ==
    /\ response = [type |-> "clear", ok |-> TRUE]
    /\ db.exists /\ db.gen >= 1 /\ collection = db.gen
    /\ db.items = <<>>

\* C5: clear_database never leaves the store collection-missing. After
\* every return of clear_database, True or False, the service's collection
\* handle refers to an existing collection.
C5_CollectionLive == response.type = "clear" => Live

C10_Step ==
    \A r \in Reqs :
        (req[r].pc \in SearchBody /\ req'[r].pc = "idle") =>
            /\ response'.type = "search"
            /\ Len(response'.results) <= Min(response'.n_results, Count)

\* C10: search(query, k) returns at most min(k, count()) results, for every
\* k >= 0 (None standing for MAX_SEARCH_RESULTS) and every store state.
C10_SearchClamped == [][C10_Step]_vars

\* a search asked for more results than the collection holds and got them all
C10_Witness ==
    /\ response.type = "search"
    /\ response.results # <<>>
    /\ Len(response.results) < response.n_results
    /\ Len(response.results) = Count

\* request r returns from search in this step
SearchReturns(r) ==
    /\ req'[r].pc = "idle"
    /\ \/ req[r].pc \in SearchBody
       \/ SearchStart(r)

\* the query vector of r has another length than the stored vectors
QueryDimMismatch(r) ==
    /\ db.dim # 0
    /\ req[r].embeddings # <<>>
    /\ req[r].embeddings[1] # db.dim

\* search of r cannot answer: the service is unavailable, the store is
\* empty or its collection is gone, the query embedding was not obtained,
\* or the query vector does not fit the store
SearchCannotAnswer(r) ==
    \/ req[r].pc = "idle" /\ ~check_availability
    \/ req[r].pc = "search_embed"
    \/ req[r].pc = "search_query" /\ (~Live \/ Count = 0 \/ QueryDimMismatch(r))

C11_Step ==
    \A r \in Reqs :
        SearchReturns(r) =>
            /\ response'.type = "search"
            /\ ~response'.raised
            /\ SearchCannotAnswer(r) => response'.results = <<>>

\* C11: search fails closed. Every call of search returns a value and
\* never raises, and the value is the empty sequence whenever the service
\* is unavailable, the store is empty, the query embedding is empty or
\* cannot be computed, or the store query fails.
C11_SearchFailsClosed == [][C11_Step]_vars

\* a search returned nothing from a store that holds chunks, because the
\* collection behind its handle was gone
C11_Witness ==
    /\ response.type = "search"
    /\ response.results = <<>>
    /\ ~Live
    /\ check_availability

-----------------------------------------------------------------------------
(* Claims about page discovery and the content loop *)

\* the seed ids of the run: URL-derived, explicit, space-enumerated
UrlSeeds ==
    {id \in {extract_page_id_from_url(wiki, cfg.page_urls[i]) : i \in 1..Len(cfg.page_urls)} :
        Truthy(id)}

Seeds == UrlSeeds \cup Range(cfg.page_ids) \cup Range(SpacePages(wiki, cfg))

ChildrenOf(p) == IF p \in DOMAIN wiki.children THEN Range(wiki.children[p]) ELSE {}

\* the pages d child steps below the pages of S
RECURSIVE AtDepth(_, _)
AtDepth(S, d) == IF d = 0 THEN S ELSE AtDepth(UNION {ChildrenOf(p) : p \in S}, d - 1)

\* the descendants of seed at depth 1..n
WithinDepth(seed, n) == UNION {AtDepth({seed}, d) : d \in 1..n}

\* discovery has ended; all_page_ids does not change afterwards
Discovered == parse_pc = "select"

AllListingsSucceed == wiki.child_fail.mode = "ok" /\ wiki.space_fail.mode = "ok"

RequestsFor(id) == Cardinality({i \in 1..Len(content_requests) : content_requests[i] = id})

\* the ids of l whose content the wiki delivers, in order
DeliveredOf(l) == SelectSeq(l, LAMBDA id : Delivered(wiki, id))

\* C13: a failed page is not retried and does not abort the batch. When the
\* run has returned, each selected page id was requested exactly once and the
\* result is exactly the successfully fetched pages among the selected ids.
C13_RequestedOnce ==
    parse_pc = "done" =>
        /\ \A id \in Range(content_calls) : RequestsFor(id) = 1
        /\ IdsOf(parse_result) = DeliveredOf(content_calls)

\* C14: partial success. When an unexpected error ends the run, the call
\* returns, and what it returns is the pages fetched successfully before the
\* error.
C14_PartialSuccess ==
    parse_pc = "except" =>
        /\ parse_result = processed_pages
        /\ IdsOf(parse_result) = DeliveredOf(content_calls)

\* an error ended a run that had fetched a page and had more to fetch
C14_Witness ==
    /\ parse_pc = "except"
    /\ parse_result # <<>>
    /\ todo # <<>>

\* the children get_child_pages had collected for seed when its loops ended
\* or an exception left them
CollectedFor(seed) ==
    IF cfg.parse_levels > 1
    THEN Range(ChildLevels(wiki, <<>>, <<seed>>, cfg.parse_levels - 1, <<>>).all)
    ELSE {}

\* C15: a timed-out wiki call fails that one unit only. When discovery has
\* ended, the children already collected for a seed are among the discovered
\* ids although a later child listing of that seed failed.
C15_CollectedKept ==
    Discovered => \A seed \in Seeds : CollectedFor(seed) \subseteq all_page_ids


-----------------------------------------------------------------------------
(* C20: page id extraction from URLs *)

\* the position of the first occurrence of sep in s
FirstAt(s, sep) ==
    CHOOSE i \in 1..Len(s) :
        OccursAt(s, i, sep) /\ \A j \in 1..(i - 1) : ~OccursAt(s, j, sep)

\* the text of s after the first occurrence of sep
After(s, sep) == SubSeq(s, FirstAt(s, sep) + Len(sep), Len(s))

\* the text of s up to the first occurrence of one of stops
UpTo(s, stops) ==
    LET hits == {i \in 1..Len(s) : \E sep \in stops : OccursAt(s, i, sep)} IN
    IF hits = {} THEN s
    ELSE SubSeq(s, 1, (CHOOSE i \in hits : \A j \in hits : i <= j) - 1)

\* '.../pages/<id>/...'
PathForm(page_url) ==
    /\ Contains(page_url, PagesSegment)
    /\ Contains(After(page_url, PagesSegment), Slash)

UrlDone == call_pc = "done" /\ "page_url" \in DOMAIN call_args

-----------------------------------------------------------------------------
(* C16: missing or placeholder certificates at startup *)

CertificatesUnusable == certificates \in {"missing", "placeholder"}

\* C16 as stated: when the client certificate or key is missing or a
\* placeholder at startup, the service reports unavailable.
C16_ReportsUnavailable == CertificatesUnusable => ~check_availability

\* C16, amended: when the client certificate or key is missing or a
\* placeholder at startup, the network-backed provider reports unavailable and
\* construction ends without it; unless the store could not be opened it installs the local
\* fallback provider, check_availability is true, and no add_document is
\* refused as unavailable or for want of embeddings.
C16_FallsBack ==
    CertificatesUnusable =>
        /\ \A library \in Libraries : ~GigaChatIsAvailable(certificates, library)
        /\ embedding_provider \in {"None", "SimpleEmbeddingsProvider"}
        /\ check_availability <=> embedding_provider = "SimpleEmbeddingsProvider"
        /\ (embedding_provider = "SimpleEmbeddingsProvider" /\ response.type = "add") =>
              response.error \notin {"RAG service unavailable", "could not get the embeddings"}

\* with placeholder certificates an add_document stored chunks
C16_Witness ==
    /\ certificates = "placeholder"
    /\ check_availability
    /\ response.type = "add"
    /\ response.success
    /\ db.items # <<>>

-----------------------------------------------------------------------------
(* C17, C18: the embedding providers *)

\* the calls made on the provider so far
Calls == {call_result[i] : i \in DOMAIN call_result}

ProviderCalled == call_pc \in {"first", "second", "done"} /\ "texts" \in DOMAIN call_args

\* C17: while the availability flag of the network-backed provider is false,
\* every get_embeddings and get_query_embedding call on it raises and returns
\* no vector.
C17_FailsClosed ==
    (/\ ProviderCalled
     /\ embedding_provider = "GigaChatEmbeddingsProvider"
     /\ ~provider_is_available) =>
        \A c \in Calls : c.raised /\ c.vectors = <<>>

\* both methods were called on a provider made with placeholder certificates
C17_Witness ==
    /\ ProviderCalled
    /\ call_pc = "done"
    /\ embedding_provider = "GigaChatEmbeddingsProvider"
    /\ certificates = "placeholder"
    /\ ~provider_is_available
    /\ {c.op : c \in Calls} = {"get_embeddings", "get_query_embedding"}
    /\ call_args.texts # <<>>

-----------------------------------------------------------------------------
(* C19: one embedding length per collection *)

\* all stored chunks have vectors of one length
SameLength == \A i \in DOMAIN db.items, j \in DOMAIN db.items : db.items[i].dim = db.items[j].dim

\* r's add_document is at its write with a vector whose length differs from
\* that of a stored chunk
LengthDiffers(r) ==
    /\ req[r].pc = "add_write"
    /\ Live
    /\ \E i \in DOMAIN db.items, k \in DOMAIN req[r].embeddings :
          req[r].embeddings[k] # db.items[i].dim

C19_Step ==
    \A r \in Reqs :
        (AddReturns(r) /\ LengthDiffers(r)) =>
            /\ db' = db
            /\ response'.type = "add"
            /\ ~response'.success
            /\ response'.chunks_added = 0

-----------------------------------------------------------------------------
(* C21: sentence-boundary packing *)

\* the chunks of greedy packing: each sentence ends with "." and a new chunk
\* is started exactly when the chunk with the next sentence added would be
\* longer than size
RECURSIVE GreedyPack(_, _, _, _)
GreedyPack(sentences, size, cur, acc) ==
    IF sentences = <<>> THEN (IF cur = <<>> THEN acc ELSE Append(acc, cur))
    ELSE LET piece == Head(sentences) \o <<".">> IN
         IF cur = <<>> THEN GreedyPack(Tail(sentences), size, piece, acc)
         ELSE IF Len(cur) + 1 + Len(piece) <= size
         THEN GreedyPack(Tail(sentences), size, cur \o <<" ">> \o piece, acc)
         ELSE GreedyPack(Tail(sentences), size, piece, Append(acc, cur))

\* every sentence of the input fits in chunk_size with its full stop
SentencesFit ==
    \A i \in 1..Len(SentencesOf(text)) : Len(SentencesOf(text)[i]) + 1 <= chunk_size

ScenarioChunks ==
    << <<"H", "e", "l", "l", "o", " ", "w", "o", "r", "l", "d", ".">>,
       <<"T", "h", "i", "s", " ", "i", "s", " ", "a", " ", "t", "e", "s", "t", ".">>,
       <<"S", "h", "o", "r", "t", ".">> >>

\* C21: split_text starts a new chunk exactly when adding the next sentence
\* would exceed chunk_size and splits no sentence that fits; the documented
\* example gives "Hello world.", "This is a test.", "Short."; the empty input
\* gives no chunk.
C21_SentencePacking ==
    split_pc = "done" =>
        /\ text = <<>> => chunks = <<>>
        /\ (text = ScenarioText /\ chunk_size = 20) => chunks = ScenarioChunks
        /\ SentencesFit => chunks = GreedyPack(SentencesOf(text), chunk_size, <<>>, <<>>)

\* the parts of C21 that hold: the example, the empty input, and no sentence
\* that fits is split over chunks
C21_ExampleAndWholeSentences ==
    split_pc = "done" =>
        /\ text = <<>> => chunks = <<>>
        /\ (text = ScenarioText /\ chunk_size = 20) => chunks = ScenarioChunks
        /\ ~HasOverlongSentence => ChunkSentences = SentencesOf(text)

-----------------------------------------------------------------------------
(* C22: retrieval failure never fails the chat turn *)

ChatDone == call_pc = "done" /\ "use_rag" \in DOMAIN call_args

\* the search of this turn was not made or gave no result
NothingRetrieved == response.type = "none" \/ response.results = <<>>

\* C22: when the chat service is available and retrieval is disabled,
\* unavailable, fails or returns no results, the chat endpoint still makes the
\* completion call, with an empty context, and answers with an empty sources
\* list.
C22_ChatAnswers ==
    (ChatDone /\ call_args.gigachat_available /\ NothingRetrieved) =>
        /\ call_result.completed
        /\ call_result.status = 200
        /\ call_result.context = <<>>
        /\ call_result.sources = <<>>

\* a turn with retrieval enabled and chunks stored whose search gave nothing
C22_Witness ==
    /\ ChatDone
    /\ call_args.use_rag
    /\ check_availability
    /\ db.items # <<>>
    /\ response.type = "search"
    /\ response.results = <<>>
    /\ call_result.completed

-----------------------------------------------------------------------------
(* C23: space enumeration by pagination *)

SpaceCalled == "max_pages" \in DOMAIN call_args

\* the requests ask for offsets 0, limit, 2*limit, ... with limit =
\* min(25, max_pages); each is sent while fewer than max_pages pages are held
\* and only after full batches
PaginationInOrder ==
    SpaceCalled =>
        LET limit == IF call_args.max_pages < 25 THEN call_args.max_pages ELSE 25
            rq == call_result.requests
            rs == call_result.responses
        IN /\ Len(rs) = Len(rq)
           /\ \A i \in DOMAIN rq :
                 /\ rq[i].start = (i - 1) * limit
                 /\ rq[i].limit = limit
                 /\ rq[i].held < call_args.max_pages
                 /\ i > 1 => rs[i - 1] = "full"
           /\ Len(call_result.result) <= call_args.max_pages
           /\ call_pc = "done" =>
                 \/ rs # <<>> /\ rs[Len(rs)] \in {"raise", "status", "empty", "short"}
                 \/ Len(call_result.pages) >= call_args.max_pages

SpaceReturned == SpaceCalled /\ call_pc = "done"

-----------------------------------------------------------------------------
(* C24: breadth-first child expansion *)

ChildDone == call_pc = "done" /\ "levels" \in DOMAIN call_args

\* what the listing of page p delivers
Listed(w, p) ==
    IF w.child_fail.page = p /\ w.child_fail.mode = "status" THEN <<>> ELSE w.children[p]

\* the frontier of round k: the page itself, then the children listed for
\* the entries of the round before, in order
RECURSIVE Frontier(_, _, _)
Frontier(w, page_id, k) ==
    IF k = 1 THEN <<page_id>>
    ELSE LET before == Frontier(w, page_id, k - 1)
         IN Flatten([i \in 1..Len(before) |-> Listed(w, before[i])])

\* the rounds performed: up to levels, ending with the first round that
\* lists no child
Rounds(w, page_id, levels) ==
    CHOOSE r \in 1..levels :
        /\ \A k \in 1..(r - 1) : Frontier(w, page_id, k + 1) # <<>>
        /\ r = levels \/ Frontier(w, page_id, r + 1) = <<>>

\* l up to and including the first p in it
UpToFirst(l, p) ==
    IF \E i \in DOMAIN l : l[i] = p
    THEN SubSeq(l, 1, CHOOSE i \in DOMAIN l : l[i] = p /\ \A j \in 1..(i - 1) : l[j] # p)
    ELSE l

\* one call per entry of each round's frontier, round after round
FrontierCalls(w, page_id, levels) ==
    Flatten([k \in 1..Rounds(w, page_id, levels) |-> Frontier(w, page_id, k)])

\* C24: get_child_pages with 1..5 levels asks for the children of each entry
\* of the current round's frontier once, round after round, for at most
\* `levels` rounds on every child relation, cyclic and shared ones included,
\* and asks nothing after a round that listed no child; a listing that raises
\* ends the calls; other values of levels make no call.
C24_BreadthFirst ==
    ChildDone =>
        LET w == call_args.w
            expected == FrontierCalls(w, call_args.page_id, call_args.levels)
        IN IF call_args.levels \notin 1..5 THEN call_result.calls = <<>>
           ELSE IF w.child_fail.mode = "raise"
           THEN call_result.calls = UpToFirst(expected, w.child_fail.page)
           ELSE call_result.calls = expected

\* five rounds on a cycle whose pages share a child
C24_Witness ==
    /\ ChildDone
    /\ call_args.levels = 5
    /\ call_args.w.child_fail = NoChildFailure
    /\ call_args.page_id = <<"1">>
    /\ call_args.w.children[<<"1">>] = << <<"2">>, <<"3">> >>
    /\ call_args.w.children[<<"2">>] = << <<"1">>, <<"3">> >>
    /\ call_args.w.children[<<"3">>] = <<>>
    /\ Len(call_result.calls) = 9

-----------------------------------------------------------------------------
(* C25: a display-form URL whose title lookup fails *)

\* the run has a display-form URL and the title lookup finds no page
DisplayLookupFails == wiki.display = None /\ \E i \in DOMAIN cfg.page_urls : cfg.page_urls[i] = UrlDisplay

\* the ids the other URLs of the model carry
IdInUrl(page_url) ==
    IF page_url = UrlQuery1 THEN << <<"1">> >>
    ELSE IF page_url = UrlPath2 THEN << <<"2">> >>
    ELSE <<>>

\* the seeds the run has apart from the display-form URL, in the order they
\* are processed: the other URLs, the explicit ids, the pages of the space
OtherSeeds ==
    Flatten([i \in 1..Len(cfg.page_urls) |-> IdInUrl(cfg.page_urls[i])])
    \o cfg.page_ids
    \o (IF cfg.space_key # None /\ wiki.space_fail.mode = "ok"
        THEN Slice(wiki.space_pages, cfg.max_pages) ELSE <<>>)

\* C25: when the title lookup of a display-form URL fails, the URL adds no id
\* and no child listing is requested for it, and the other URLs, the explicit
\* ids and the space seed of the run are processed as without it: when
\* discovery has ended, all of them are discovered and the child listings
\* requested are exactly theirs.
C25_DisplaySkipped ==
    (Discovered /\ DisplayLookupFails) =>
        /\ None \notin all_page_ids
        /\ Range(OtherSeeds) \subseteq all_page_ids
        /\ child_calls = Flatten([i \in 1..Len(OtherSeeds) |->
                                    SeedListings(wiki, OtherSeeds[i], cfg.parse_levels)])

\* a run with a failing display lookup that went on to explicit ids and the
\* space, expanding children
C25_Witness ==
    /\ Discovered
    /\ DisplayLookupFails
    /\ cfg.page_ids # <<>>
    /\ cfg.space_key # None
    /\ cfg.parse_levels > 1
    /\ Len(child_calls) > Len(OtherSeeds)
    /\ Cardinality(all_page_ids) = 3

-----------------------------------------------------------------------------
(* C26: per-chunk metadata of a successful add_document *)

C26_Step ==
    \A r \in Reqs :
        (AddReturns(r) /\ response'.type = "add" /\ response'.success) =>
            LET texts == req[r].chunk_texts
                n == Len(texts)
                new == SubSeq(db'.items, Len(db.items) + 1, Len(db'.items))
            IN /\ db'.items = db.items \o new
               /\ Len(new) = n
               /\ response'.chunks_added = n
               /\ \A i \in 1..n :
                     /\ new[i].text = texts[i]
                     /\ \A key \in DOMAIN req[r].meta : new[i].meta[key] = req[r].meta[key]
                     /\ new[i].meta["chunk_index"] = i - 1
                     /\ new[i].meta["total_chunks"] = n
                     /\ new[i].meta["chunk_size"] = Len(texts[i])
               /\ response'.metadata = req[r].meta

\* C26: a successful add_document of n non-empty chunks appends exactly n
\* records in chunk order; record i carries every key and value of the
\* document metadata plus chunk_index = i, total_chunks = n and chunk_size =
\* the length of its text; the result reports chunks_added = n; the caller's
\* metadata map is as it was.
C26_ChunkMetadata == [][C26_Step]_vars

\* a document of two chunks was stored
C26_Witness ==
    /\ response.type = "add"
    /\ response.success
    /\ response.chunks_added = 2
    /\ db.items # <<>>
    /\ db.items[Len(db.items)].meta["chunk_index"] = 1
    /\ db.items[Len(db.items)].meta["total_chunks"] = 2

-----------------------------------------------------------------------------
(* C27: stored chunks are immutable, the store is append-only between clears *)

\* a step of clear_database: delete_collection or get_or_create_collection
ClearStep == \E r \in Reqs : req[r].pc \in ClearBody

\* the stored chunks before the step are, unchanged and in place, the first
\* stored chunks after it
KeepsStored ==
    /\ db'.exists = db.exists
    /\ db'.gen = db.gen
    /\ Len(db'.items) >= Len(db.items)
    /\ SubSeq(db'.items, 1, Len(db.items)) = db.items

\* no two stored chunks carry the same id
DistinctIds ==
    \A i, j \in 1..Len(db.items) : db.items[i].id = db.items[j].id => i = j

\* C27: a step of add_document, search, get_stats or analyze_chunks removes
\* or changes no stored chunk (id, text, embedding, metadata): it leaves the
\* stored sequence as a prefix of the new one, and new ids differ from the
\* stored ones; only a step of clear_database removes chunks.
C27_AppendOnly == [][(~ClearStep => KeepsStored) /\ DistinctIds']_vars

\* an add_document call has appended to a store that already held chunks
C27_Witness ==
    /\ response.type = "add"
    /\ response.success
    /\ Len(db.items) > response.chunks_added
    /\ response.chunks_added > 0

-----------------------------------------------------------------------------
(* C28: the embedding provider is selected once, at construction *)

\* construction installed the network-backed provider only with valid
\* certificate files, and one of the two providers whenever it succeeded
SelectedAtConstruction ==
    /\ embedding_provider = "GigaChatEmbeddingsProvider" => certificates = "valid"
    /\ certificates # "valid" /\ is_available =>
           embedding_provider = "SimpleEmbeddingsProvider"
    /\ is_available =>
           /\ embedding_provider \in {"GigaChatEmbeddingsProvider", "SimpleEmbeddingsProvider"}
           /\ provider_is_available

SelectionKept ==
    /\ embedding_provider' = embedding_provider
    /\ provider_is_available' = provider_is_available

-----------------------------------------------------------------------------
(* The synchronous methods of RAGService, each as one call *)

\* the metadata of two wiki pages and of an uploaded file
CallMetadatas ==
    {[source |-> "confluence", page_id |-> "1"],
     [source |-> "confluence", page_id |-> "2"],
     [source |-> "file_upload", filename |-> "f.txt"]}

\* metadata.get(key, 'unknown')
MetadataGet(metadata, key) ==
    IF key \in DOMAIN metadata THEN metadata[key] ELSE "unknown"

\* get_stats: the set confluence_pages
ConfluencePages(items) ==
    {MetadataGet(items[i].meta, "page_id") :
        i \in {j \in 1..Len(items) : MetadataGet(items[j].meta, "source") = "confluence"}}

\* get_stats: the set uploaded_files
UploadedFiles(items) ==
    {MetadataGet(items[i].meta, "filename") :
        i \in {j \in 1..Len(items) :
                  MetadataGet(items[j].meta, "source") \in {"file", "file_upload"}}}

\* get_stats(): the unavailable path, the `except` path of a collection that
\* no longer exists, and the counted statistics
get_stats ==
    IF ~check_availability
    THEN [type |-> "stats", total_chunks |-> 0, confluence_pages |-> 0,
          uploaded_files |-> 0, status |-> "unavailable"]
    ELSE IF ~Live
    THEN [type |-> "stats", total_chunks |-> 0, confluence_pages |-> 0,
          uploaded_files |-> 0, status |-> "error"]
    ELSE [type |-> "stats", total_chunks |-> Len(db.items),
          confluence_pages |-> Cardinality(ConfluencePages(db.items)),
          uploaded_files |-> Cardinality(UploadedFiles(db.items)),
          status |-> "available"]

\* add_document(content, metadata), from the availability check to its return
AddDocumentCall ==
    /\ \E content \in Contents, meta \in CallMetadatas, server \in EmbedServers :
         LET cs == split_text(content, CHUNK_SIZE)
             chunk_texts == SelectSeq(cs, LAMBDA c : Strip(c) # <<>>)
             e == get_embeddings(chunk_texts, server)
             records == ChunkRecords(chunk_texts, e.vectors, meta)
             result ==
                 IF ~check_availability THEN AddFailure("RAG service unavailable")
                 ELSE IF cs = <<>>
                 THEN AddFailure("could not split the text into chunks")
                 ELSE IF chunk_texts = <<>> THEN AddFailure("no valid chunks")
                 ELSE IF e.raised THEN AddExcept(e.msg)
                 ELSE IF ~EmbeddingsComplete(e.vectors, chunk_texts)
                 THEN AddFailure("could not get the embeddings")
                 ELSE IF StoreAddError(records) # "" THEN AddExcept(StoreAddError(records))
                 ELSE AddSuccess(Len(records))
         IN /\ Len(db.items) + Len(cs) <= MaxStored
            /\ response' = result
            /\ db' = IF result.success THEN StoreAdd(records) ELSE db
    /\ UNCHANGED <<serviceVars, req, loop, otherVars>>

\* clear_database(), from the availability check to its return
ClearDatabaseCall ==
    /\ db.gen < MaxClears
    /\ \/ \* unavailable, or delete_collection raises
          /\ response' = [type |-> "clear", ok |-> FALSE]
          /\ UNCHANGED <<db, collection>>
       \/ \* get_or_create_collection raises after the delete
          /\ check_availability
          /\ db.exists
          /\ response' = [type |-> "clear", ok |-> FALSE]
          /\ db' = DeleteCollection(db)
          /\ UNCHANGED collection
       \/ /\ check_availability
          /\ db.exists
          /\ response' = [type |-> "clear", ok |-> TRUE]
          /\ db' = GetOrCreateCollection(DeleteCollection(db))
          /\ collection' = db'.gen
    /\ UNCHANGED <<is_available, embedding_provider, provider_is_available, certificates,
                   req, loop, otherVars>>

\* get_stats()
GetStatsCall ==
    /\ response' = get_stats
    /\ UNCHANGED <<db, serviceVars, req, loop, otherVars>>

CallsNext == AddDocumentCall \/ ClearDatabaseCall \/ GetStatsCall

SpecCalls == Init /\ [][CallsNext]_vars

-----------------------------------------------------------------------------
(* C29: chunk-count accounting *)

C29_Step ==
    /\ response'.type = "add" =>
          /\ Count' = Count + response'.chunks_added
          /\ Len(db'.items) = Len(db.items) + response'.chunks_added
    /\ response'.type = "clear" =>
          Count' = (IF response'.ok THEN 0 ELSE Count)
    /\ response'.type = "stats" =>
          /\ Count' = Count
          /\ response'.total_chunks = Count
          /\ Live =>
                /\ response'.confluence_pages = Cardinality(
                      {p \in {"1", "2"} : \E i \in 1..Len(db.items) :
                          /\ db.items[i].meta["source"] = "confluence"
                          /\ db.items[i].meta["page_id"] = p})
                /\ response'.uploaded_files = Cardinality(
                      {f \in {"f.txt"} : \E i \in 1..Len(db.items) :
                          /\ db.items[i].meta["source"] = "file_upload"
                          /\ db.items[i].meta["filename"] = f})

\* C29: count() changes by chunks_added in an add_document call (0 when it
\* fails, n again for a document already added), becomes 0 in a successful
\* clear_database, is left alone by a clear_database that returns False and by
\* get_stats, whose total_chunks equals it; confluence_pages and
\* uploaded_files count distinct page ids and file names.
C29_Accounting == [][C29_Step]_vars

\* the accounting of add_document and get_stats alone
C29_AddAndStats == [][response'.type # "clear" => C29_Step]_vars

-----------------------------------------------------------------------------
(* The shared ConfluenceService instance and the TLS verification of its session *)

MaxRequests == 3

\* what _setup_corporate_environment finds at process start: the value of
\* CONFLUENCE_SSL_VERIFY, whether CONFLUENCE_CA_BUNDLE names an existing file,
\* whether a system certificate file exists, whether the set-up raises
Environments ==
    [ssl_verify : {"true", "false"}, ca_bundle : BOOLEAN, system_ca : BOOLEAN,
     setup_raises : BOOLEAN]

\* _setup_corporate_environment: the value session.verify ends with
setup_corporate_environment(env) ==
    IF env.setup_raises THEN "False"
    ELSE IF env.ssl_verify = "false" THEN "False"
    ELSE IF env.ca_bundle THEN "ca_bundle"
    ELSE IF env.system_ca THEN "ca_path"
    ELSE "False"

\* _configure_ssl_for_request: session.verify after the call
configure_ssl_for_request(session_verify, verify_ssl) ==
    IF ~verify_ssl THEN "False" ELSE session_verify

\* the statuses of the wiki's answer; 0 stands for a raised exception
TlsStatuses == {200, 401, 0}

\* `confluence_service = ConfluenceService()` at import of main
TlsInit ==
    /\ \E env \in Environments :
         /\ call_args = [env |-> env, kind |-> "none", verify_ssl |-> TRUE]
         /\ call_result = [session_verify |-> setup_corporate_environment(env),
                           used |-> "none", status |-> 0, handled |-> 0]
    /\ call_pc = "idle"
    /\ RagIdle
    /\ SplitIdle
    /\ ParseIdle

\* self.session after _configure_ssl_for_request and the wiki calls made
\* through it, which pass no verify argument
SessionAfter(verify_ssl, status) ==
    LET verify == configure_ssl_for_request(call_result.session_verify, verify_ssl)
    IN [session_verify |-> verify, used |-> verify, status |-> status,
        handled |-> call_result.handled + 1]

\* the handler of /api/confluence/test: test_connection(config_data)
TestConnection ==
    /\ call_result.handled < MaxRequests
    /\ \E verify_ssl \in BOOLEAN, status \in TlsStatuses :
         /\ call_args' = [call_args EXCEPT !.kind = "test_connection",
                                           !.verify_ssl = verify_ssl]
         /\ call_result' = SessionAfter(verify_ssl, status)
    /\ UNCHANGED <<call_pc, ragVars, splitVars, parseVars>>

\* the handler of /api/confluence/parse: parse_confluence_pages(request.config, ...)
ParseConfluencePages ==
    /\ call_result.handled < MaxRequests
    /\ \E verify_ssl \in BOOLEAN, status \in TlsStatuses :
         /\ call_args' = [call_args EXCEPT !.kind = "parse_confluence_pages",
                                           !.verify_ssl = verify_ssl]
         /\ call_result' = SessionAfter(verify_ssl, status)
    /\ UNCHANGED <<call_pc, ragVars, splitVars, parseVars>>

TlsNext == TestConnection \/ ParseConfluencePages

SpecTls == TlsInit /\ [][TlsNext]_vars

-----------------------------------------------------------------------------
(* C30: request isolation of TLS verification *)

\* the verification mode the environment at process start and the request's
\* own verify_ssl setting give
OwnMode(env, verify_ssl) ==
    IF ~verify_ssl THEN "False"
    ELSE IF env.setup_raises \/ env.ssl_verify = "false" THEN "False"
    ELSE IF env.ca_bundle THEN "ca_bundle"
    ELSE IF env.system_ca THEN "ca_path"
    ELSE "False"

\* C30: the wiki calls of every test_connection or parse_confluence_pages
\* request are made with the verification mode its own verify_ssl setting and
\* the process-start environment give, whatever requests the shared service
\* handled before; a request with verify_ssl = true in an environment with
\* certificates is verified.
C30_RequestIsolation ==
    call_result.handled > 0 =>
        call_result.used = OwnMode(call_args.env, call_args.verify_ssl)

====
